---- MODULE Spec2Model ----
(***************************************************************************)
(* Model of the PostHog app for Agility CMS.                               *)
(*                                                                         *)
(*  Spec         the create-experiment components (the sidebar wizard of   *)
(*               CreateExperiment.tsx and the earlier one-button version): *)
(*               click, CMS content-list fetch, variant extraction,        *)
(*               traffic allocation, creation POST, response handling.     *)
(*  SpecAlloc    the traffic allocation of createExperiment as a pure      *)
(*               function of (variant keys, targeting.rollout_percentage). *)
(*  SpecResults  the results route (GET, transformResults) followed by    *)
(*               the ExperimentResults render.                             *)
(*  SpecStats    the analytics loads of Dashboard, ContentAnalytics and    *)
(*               PageAnalytics (fetchStats).                               *)
(*  SpecSidebar  PostHogSidebar: the experiment lookup, the results        *)
(*               request and what the component renders.                   *)
(*  SpecModal    CreateExperimentModal inside CreateExperimentPage: the    *)
(*               variants load at mount, the steps, createExperiment and   *)
(*               the closeModal calls.                                     *)
(*  SpecPage     the Page components of layout.tsx: the listener on the    *)
(*               ExperimentKey field and its release.                      *)
(***************************************************************************)
EXTENDS Integers, Sequences, FiniteSets, TLC

\* ------------------------------------------------------------------------
\* Bounds of the model
\* ------------------------------------------------------------------------

\* longest CMS content list returned by getContentList
MaxItems == 2

\* longest key list handed to the allocation in SpecAlloc
MaxAllocKeys == 12

\* longest variant_results array of a metric result
MaxVariantResults == 2

\* largest number of metric results handed to transformResults
MaxMetrics == 2

\* ------------------------------------------------------------------------
\* JavaScript values
\* ------------------------------------------------------------------------

\* an optional value: Null stands for null / undefined / an absent field
Null == <<>>

Some(x) == <<x>>

\* a ?? b
Coalesce(a, b) == IF a # Null THEN a ELSE b

\* the value of a CMS field: undefined, a string, or a number
Undef == [t |-> "undef", s |-> "", n |-> 0]

Str(x) == [t |-> "str", s |-> x, n |-> 0]

Num(x) == [t |-> "num", s |-> "", n |-> x]

\* JavaScript truthiness of a field value
Truthy(v) ==
    \/ v.t = "str" /\ v.s # ""
    \/ v.t = "num" /\ v.n # 0

\* a || b
Or(a, b) == IF Truthy(a) THEN a ELSE b

\* ------------------------------------------------------------------------
\* CMS content items
\* ------------------------------------------------------------------------

\* an item that is an object with the fields Variant and variant
Obj(V, v) == [isArray |-> FALSE, Variant |-> V, variant |-> v, elems |-> <<>>]

\* an item that is itself an array of nested objects
Arr(es) == [isArray |-> TRUE, Variant |-> Undef, variant |-> Undef, elems |-> es]

Items ==
    { Obj(Str("a"), Undef),
      Obj(Str("b"), Undef),
      Obj(Undef, Str("b")),
      Obj(Str("control"), Undef),
      Obj(Str(""), Undef),
      Obj(Undef, Undef),
      Obj(Num(7), Undef),
      Arr(<<Obj(Str("a"), Undef), Obj(Str("b"), Undef)>>) }

ItemSeqs == UNION { [1..k -> Items] : k \in 0..MaxItems }

\* the response of getContentList: a falsy response, or totalCount and items
ContentLists ==
    { [ok |-> FALSE, totalCount |-> 0, items |-> <<>>] }
    \cup { [ok |-> TRUE, totalCount |-> Len(s), items |-> s] : s \in ItemSeqs }

NoList == [ok |-> FALSE, totalCount |-> 0, items |-> <<>>]

\* the body of the forEach callback: the value pushed for one item, if any
ItemVariant(variantItem) ==
    LET v1 == IF variantItem.isArray
              THEN Undef
              ELSE Or(variantItem.Variant, variantItem.variant)
        v2 == IF ~Truthy(v1) /\ variantItem.isArray /\ Len(variantItem.elems) > 0
              THEN Or(variantItem.elems[1].Variant, variantItem.elems[1].variant)
              ELSE v1
    IN  IF Truthy(v2) THEN <<v2>> ELSE <<>>

\* contentList.items?.forEach(...) : the variants array after the loop
RECURSIVE ExtractVariants(_)
ExtractVariants(items) ==
    IF items = <<>> THEN <<>>
    ELSE ItemVariant(Head(items)) \o ExtractVariants(Tail(items))

\* variant of AllVariants: the baseline arm is appended instead of prepended
AllVariantsControlLast(variants) == variants \o <<Str("control")>>

\* const allVariants = ["control", ...variants]
AllVariants(variants) == <<Str("control")>> \o variants

\* ------------------------------------------------------------------------
\* Traffic allocation
\* ------------------------------------------------------------------------

Versions == {"wizard", "simple"}

\* the slider of the configure step: min 10, max 100, step 10
SliderValues == { 10 * k : k \in 1..10 }

\* const effectiveRollout = targeting.rollout_percentage || 100
\* (the one-button version has the literal 100)
EffectiveRollout(ver, rollout_percentage) ==
    IF ver = "simple" THEN 100
    ELSE IF rollout_percentage # 0 THEN rollout_percentage ELSE 100

\* variant of BasePercentage: Math.ceil in place of Math.floor
BasePercentageCeil(effectiveRollout, totalVariants) ==
    (effectiveRollout + totalVariants - 1) \div totalVariants

\* const basePercentage = Math.floor(effectiveRollout / totalVariants)
BasePercentage(effectiveRollout, totalVariants) == effectiveRollout \div totalVariants

\* const remainder = effectiveRollout - (basePercentage * totalVariants)
Remainder(effectiveRollout, totalVariants) ==
    effectiveRollout - BasePercentage(effectiveRollout, totalVariants) * totalVariants

\* variant of FeatureFlagVariants: the extra points go to the last positions
FeatureFlagVariantsLast(allVariants, effectiveRollout) ==
    LET totalVariants == Len(allVariants)
        basePercentage == BasePercentage(effectiveRollout, totalVariants)
        remainder == Remainder(effectiveRollout, totalVariants)
    IN  [ i \in 1..totalVariants |->
            [ key |-> allVariants[i],
              rollout_percentage |->
                  basePercentage + (IF (i - 1) >= totalVariants - remainder THEN 1 ELSE 0) ] ]

\* allVariants.map((variant, index) => ({key, rollout_percentage}))
FeatureFlagVariants(allVariants, effectiveRollout) ==
    LET totalVariants == Len(allVariants)
        basePercentage == BasePercentage(effectiveRollout, totalVariants)
        remainder == Remainder(effectiveRollout, totalVariants)
    IN  [ i \in 1..totalVariants |->
            [ key |-> allVariants[i],
              rollout_percentage |->
                  basePercentage + (IF (i - 1) < remainder THEN 1 ELSE 0) ] ]

\* ------------------------------------------------------------------------
\* State
\* ------------------------------------------------------------------------

VARIABLES
    version,        \* which create-experiment component is mounted
    contentItem,    \* Null, or Some(contentID) of the item being edited
    sdkReady,       \* instance && locale
    variantsField,  \* item.values["Variants"] is set
    step,           \* wizard step
    targeting,      \* targeting.rollout_percentage
    pc,             \* position of createExperiment: idle, token, list, post
    clickTargeting, \* targeting.rollout_percentage seen by the running handler
    isLoading,
    errorMsg,
    successMsg,
    contentList,    \* the content list the running handler received
    request,        \* feature_flag_variants of the creation POST in flight
    timerPending,   \* the setTimeout that calls onCreated is armed
    created,        \* onCreated has been called
    postResponse,   \* Null, or Some of the status and the errorData detail
                    \* of the response to the creation POST of this click
    postsSent,      \* creation POSTs issued since the last click
    \* the allocation as a function (SpecAlloc)
    allocKeys,      \* allVariants
    allocRollout,   \* targeting.rollout_percentage
    allocOut,       \* featureFlagVariants, <<>> before the allocation ran
    \* the results route and the ExperimentResults component (SpecResults)
    experimentStatus, \* status of the route's experiment fetch
    fetchRejected,  \* a fetch of the route rejects
    metricQueries,  \* Null without experiment.metrics, else Some of the
                    \* Promise.all outcome: Null for a query that was not ok
    resPc,          \* query, error, noResults, transformed, rendered
    metricResults,  \* validResults handed to transformResults
    results,        \* Null, or Some of the body the route responded with
    winningVariant, \* winningVariant of the render
    totalExposures, \* totalExposures of the render
    exposurePercent, \* exposurePercent of each variant of the render
    conversionRate, \* conversionRate of each variant of each metric
    \* the analytics components (SpecStats)
    component,      \* Dashboard, ContentAnalytics or PageAnalytics
    statsConfigured, \* the id and the PostHog settings the effect asks for
    queryResults,   \* what each query of fetchStats settles with: Null when
                    \* runHogQLQuery rejects, else Some of its results rows
    statsPc,        \* mounted, loading, loaded
    statsLoading,   \* loading
    statsError,     \* error
    stats,          \* stats
    \* the PostHogSidebar component (SpecSidebar)
    experimentKey,  \* the experimentKey prop, "" when the field is empty
    postHogAPIKey,  \* the postHogAPIKey prop is set
    postHogProjectId, \* the postHogProjectId prop is set
    posthogExperiments, \* the id of the PostHog experiment of each feature
                    \* flag key, 0 when there is none
    experiment,     \* Null, or Some of the id and feature_flag_key displayed
    loading,
    error,
    sidebarResults, \* results: Null, or Some of the id they were fetched for
    resultsLoading,
    resultsError,
    effectQueued,   \* the effect of the last render has not run yet
    lookups,        \* the fetchExperiment calls in flight
    resultRequests, \* the fetchResults calls in flight
    createTimer,    \* Null, or Some of the experiment the armed timer of
                    \* CreateExperiment will hand to onCreated
    lastLookup,     \* Null, or Some of the key and the outcome of the
                    \* lookup that completed last
    keyChanges,     \* changes of the experimentKey prop so far
    \* the create-experiment modal (SpecModal)
    modalOpen,      \* the host has not yet removed the modal frame
    modalItem,      \* the contentItem prop: Null, or Some(contentID)
    modalSdkReady,  \* instance && locale
    modalVariantsField, \* item.values["Variants"] is set
    cmsVariants,    \* the variants loaded at mount
    variantsLoading,
    variantsError,
    variantsPc,     \* fetchCmsVariants: mounted, list, done
    modalStep,      \* step
    modalTargeting, \* targeting.rollout_percentage
    modalClickTargeting, \* targeting.rollout_percentage seen by the running handler
    modalPc,        \* createExperiment of the modal: idle, list, post
    modalIsLoading, \* isLoading
    modalErrorMsg,  \* errorMsg
    modalSuccessMsg, \* successMsg
    modalRequest,   \* feature_flag_variants of the creation POST in flight
    modalTimers,    \* armed timers that will call onCreated
    closeCalls,     \* the arguments closeModal was called with, in order
    \* the content-item sidebar page (SpecPage)
    pageVersion,    \* which version of the page is mounted
    pageMounted,    \* the page component is mounted
    pageEffectQueued, \* a render whose effect has not run yet
    pageEffectRan,  \* the effect has run at least once
    itemExperimentKey, \* item?.values?.ExperimentKey
    pageExperimentKey, \* the experimentKey state of the page
    registrations,  \* addFieldListener calls not yet followed by a
                    \* removeFieldListener call
    itemUpdates     \* changes of item.values.ExperimentKey so far

createVars == << version, contentItem, sdkReady, variantsField, step, targeting, pc,
                 clickTargeting, isLoading, errorMsg, successMsg, contentList,
                 request, timerPending, created, postResponse, postsSent >>

allocVars == << allocKeys, allocRollout, allocOut >>

resultsVars == << experimentStatus, fetchRejected, metricQueries, resPc,
                  metricResults, results, winningVariant, totalExposures,
                  exposurePercent, conversionRate >>

statsVars == << component, statsConfigured, queryResults, statsPc, statsLoading,
                statsError, stats >>

sidebarVars == << experimentKey, postHogAPIKey, postHogProjectId, posthogExperiments,
                  experiment, loading, error, sidebarResults, resultsLoading,
                  resultsError, effectQueued, lookups, resultRequests, createTimer,
                  lastLookup, keyChanges >>

modalVars == << modalOpen, modalItem, modalSdkReady, modalVariantsField, cmsVariants,
                variantsLoading, variantsError, variantsPc, modalStep, modalTargeting,
                modalClickTargeting, modalPc, modalIsLoading, modalErrorMsg,
                modalSuccessMsg, modalRequest, modalTimers, closeCalls >>

pageVars == << pageVersion, pageMounted, pageEffectQueued, pageEffectRan,
               itemExperimentKey, pageExperimentKey, registrations, itemUpdates >>

vars == << createVars, allocVars, resultsVars, statsVars, sidebarVars, modalVars,
           pageVars >>

\* ------------------------------------------------------------------------
\* createExperiment
\* ------------------------------------------------------------------------

NoRequest == <<>>

\* the checks between the token and the content-list fetch: the message of
\* the first failing check, "ok" when all pass
Validate(item, ready, field) ==
    IF item = Null \/ item[1] < 1 THEN "save_first"
    ELSE IF ~ready THEN "no_instance"
    ELSE IF ~field THEN "no_variants_field"
    ELSE "ok"

\* errorData?.detail || 'Please check your experiment configuration.'
Detail(detail) ==
    IF detail # Null /\ detail[1] # "" THEN detail[1] ELSE "check_configuration"

\* variant of StatusMessage: a detail of the response is shown whatever
\* the status
StatusMessageDetailFirst(status, detail) ==
    IF detail # Null /\ detail[1] # "" THEN "bad_request: " \o detail[1]
    ELSE IF status = 401 THEN "invalid_api_key"
    ELSE IF status = 403 THEN "access_denied"
    ELSE IF status = 404 THEN "project_not_found"
    ELSE IF status = 400 THEN "bad_request: " \o Detail(detail)
    ELSE "failed_status: " \o ToString(status)

\* the message chosen from response.status when the POST is not ok; detail
\* is errorData?.detail, Null when the body is no JSON or has no detail
StatusMessage(status, detail) ==
    IF status = 401 THEN "invalid_api_key"
    ELSE IF status = 403 THEN "access_denied"
    ELSE IF status = 404 THEN "project_not_found"
    ELSE IF status = 400 THEN "bad_request: " \o Detail(detail)
    ELSE "failed_status: " \o ToString(status)

Statuses == {200, 201, 400, 401, 403, 404, 500, 503}

Details == {Null, Some(""), Some("flag_key_exists")}

\* responses to the creation POST: a status, and the detail of its body
PostResponses ==
    { [status |-> st, detail |-> Null] : st \in Statuses }
    \cup { [status |-> st, detail |-> d] : st \in {400, 401, 500}, d \in Details }

\* response.ok
Ok(status) == status >= 200 /\ status <= 299

Mounted == ~created

\* what createExperiment never changes: the SDK context of the component
\* and the state of the other components
Env == << version, contentItem, sdkReady, variantsField, allocVars, resultsVars,
          statsVars, sidebarVars, modalVars, pageVars >>

\* the state of the other components while they are not running
AllocIdle ==
    /\ allocKeys = <<>>
    /\ allocRollout = 100
    /\ allocOut = <<>>

SidebarIdle ==
    /\ experimentKey = "k1"
    /\ postHogAPIKey = TRUE
    /\ postHogProjectId = TRUE
    /\ posthogExperiments = [ k \in {"k1", "k2"} |-> 0 ]
    /\ experiment = Null
    /\ loading = FALSE
    /\ error = Null
    /\ sidebarResults = Null
    /\ resultsLoading = FALSE
    /\ resultsError = Null
    /\ effectQueued = TRUE
    /\ lookups = <<>>
    /\ resultRequests = <<>>
    /\ createTimer = Null
    /\ lastLookup = Null
    /\ keyChanges = 0

PageIdle ==
    /\ pageVersion = "tabs"
    /\ pageMounted = TRUE
    /\ pageEffectQueued = TRUE
    /\ pageEffectRan = FALSE
    /\ itemExperimentKey = Null
    /\ pageExperimentKey = Null
    /\ registrations = 0
    /\ itemUpdates = 0

ModalIdle ==
    /\ modalOpen = TRUE
    /\ modalItem = Some(5)
    /\ modalSdkReady = TRUE
    /\ modalVariantsField = TRUE
    /\ cmsVariants = <<>>
    /\ variantsLoading = TRUE
    /\ variantsError = Null
    /\ variantsPc = "mounted"
    /\ modalStep = "template"
    /\ modalTargeting = 100
    /\ modalClickTargeting = 100
    /\ modalPc = "idle"
    /\ modalIsLoading = FALSE
    /\ modalErrorMsg = "null"
    /\ modalSuccessMsg = "null"
    /\ modalRequest = <<>>
    /\ modalTimers = 0
    /\ closeCalls = <<>>

StatsIdle ==
    /\ component = "Dashboard"
    /\ statsConfigured = TRUE
    /\ queryResults = <<>>
    /\ statsPc = "mounted"
    /\ statsLoading = TRUE
    /\ statsError = Null
    /\ stats = Null

ResultsIdle ==
    /\ experimentStatus = 200
    /\ fetchRejected = FALSE
    /\ metricQueries = Null
    /\ resPc = "query"
    /\ metricResults = <<>>
    /\ results = Null
    /\ winningVariant = Null
    /\ totalExposures = Null
    /\ exposurePercent = Null
    /\ conversionRate = Null

Init ==
    /\ version \in Versions
    /\ contentItem \in {Null, Some(-1), Some(0), Some(5)}
    /\ sdkReady \in BOOLEAN
    /\ variantsField \in BOOLEAN
    /\ step = IF version = "wizard" THEN "template" ELSE "review"
    /\ targeting = 100
    /\ pc = "idle"
    /\ clickTargeting = 100
    /\ isLoading = FALSE
    /\ errorMsg = "null"
    /\ successMsg = "null"
    /\ contentList = NoList
    /\ request = NoRequest
    /\ timerPending = FALSE
    /\ created = FALSE
    /\ postResponse = Null
    /\ postsSent = 0
    /\ AllocIdle
    /\ ResultsIdle
    /\ StatsIdle
    /\ SidebarIdle
    /\ ModalIdle
    /\ PageIdle

Handler == << pc, clickTargeting, isLoading, errorMsg, successMsg, contentList,
             request, timerPending, created, postResponse, postsSent >>

\* selectTemplate: a template card of the first wizard step
SelectTemplate ==
    /\ Mounted /\ version = "wizard" /\ step = "template"
    /\ step' = "configure"
    /\ UNCHANGED << Env, targeting, Handler >>

\* "Back to templates" on the configure step
BackToTemplate ==
    /\ Mounted /\ version = "wizard" /\ step = "configure"
    /\ step' = "template"
    /\ UNCHANGED << Env, targeting, Handler >>

\* the traffic-allocation slider of the configure step
SetTargeting ==
    /\ Mounted /\ version = "wizard" /\ step = "configure"
    /\ \E v \in SliderValues : targeting' = v
    /\ UNCHANGED << Env, step, Handler >>

\* "Review & Create" (the metrics list, which can disable the button for
\* the custom template, is not part of this model)
GoReview ==
    /\ Mounted /\ version = "wizard" /\ step = "configure"
    /\ step' = "review"
    /\ UNCHANGED << Env, targeting, Handler >>

\* "Back to configure" on the review step
BackToConfigure ==
    /\ Mounted /\ version = "wizard" /\ step = "review"
    /\ step' = "configure"
    /\ UNCHANGED << Env, targeting, Handler >>

\* variant of CreateClick: the Create button stays rendered while the
\* success message is shown
CreateClickAfterSuccess ==
    /\ Mounted /\ step = "review"
    /\ ~isLoading
    /\ errorMsg' = "null"
    /\ successMsg' = "null"
    /\ isLoading' = TRUE
    /\ clickTargeting' = targeting
    /\ pc' = "token"
    /\ postResponse' = Null
    /\ postsSent' = 0
    /\ UNCHANGED << Env, step, targeting, contentList, request, timerPending, created >>

\* the Create button: createExperiment up to its first await
CreateClick ==
    /\ Mounted /\ step = "review"
    /\ successMsg = "null" /\ ~isLoading
    /\ errorMsg' = "null"
    /\ successMsg' = "null"
    /\ isLoading' = TRUE
    /\ clickTargeting' = targeting
    /\ pc' = "token"
    /\ postResponse' = Null
    /\ postsSent' = 0
    /\ UNCHANGED << Env, step, targeting, contentList, request, timerPending, created >>

\* the catch block followed by finally
Catch ==
    /\ errorMsg' = "unexpected"
    /\ isLoading' = FALSE
    /\ pc' = "idle"
    /\ contentList' = NoList
    /\ request' = NoRequest
    /\ UNCHANGED << Env, step, targeting, clickTargeting, successMsg, timerPending, created,
                    postResponse, postsSent >>

\* getManagementAPIToken resolves: the checks, then getContentList is sent
TokenResolved ==
    /\ pc = "token"
    /\ LET msg == Validate(contentItem, sdkReady, variantsField)
       IN  IF msg # "ok"
           THEN /\ errorMsg' = msg
                /\ isLoading' = FALSE
                /\ pc' = "idle"
           ELSE /\ pc' = "list"
                /\ UNCHANGED << errorMsg, isLoading >>
    /\ UNCHANGED << Env, step, targeting, clickTargeting, successMsg, contentList,
                    request, timerPending, created, postResponse, postsSent >>

TokenRejected ==
    /\ pc = "token"
    /\ Catch

\* getContentList resolves: the emptiness check, the extraction, the
\* allocation and the creation POST
ListResponse ==
    /\ pc = "list"
    /\ \E cl \in ContentLists :
         IF ~cl.ok \/ cl.totalCount = 0
         THEN /\ errorMsg' = "no_items"
              /\ isLoading' = FALSE
              /\ pc' = "idle"
              /\ UNCHANGED << contentList, request, postsSent >>
         ELSE LET variants == ExtractVariants(cl.items)
                  allVariants == AllVariants(variants)
                  effectiveRollout == EffectiveRollout(version, clickTargeting)
                  featureFlagVariants == FeatureFlagVariants(allVariants, effectiveRollout)
              IN  /\ contentList' = cl
                  /\ request' = featureFlagVariants
                  /\ postsSent' = postsSent + 1
                  /\ pc' = "post"
                  /\ UNCHANGED << errorMsg, isLoading >>
    /\ UNCHANGED << Env, step, targeting, clickTargeting, successMsg, timerPending, created,
                    postResponse >>

ListRejected ==
    /\ pc = "list"
    /\ Catch

\* variant of PostResponse: a 5xx response makes the handler send the
\* creation POST once more
PostResponseRetry ==
    /\ pc = "post"
    /\ \E r \in PostResponses :
         IF r.status >= 500 /\ postsSent < 2
         THEN /\ postsSent' = postsSent + 1
              /\ UNCHANGED << Env, step, targeting, pc, clickTargeting, isLoading, errorMsg,
                              successMsg, contentList, request, timerPending, created,
                              postResponse >>
         ELSE /\ postResponse' = Some(r)
              /\ IF ~Ok(r.status)
                 THEN /\ errorMsg' = StatusMessage(r.status, r.detail)
                      /\ UNCHANGED << successMsg, timerPending >>
                 ELSE /\ successMsg' = "created"
                      /\ timerPending' = TRUE
                      /\ UNCHANGED errorMsg
              /\ isLoading' = FALSE
              /\ pc' = "idle"
              /\ contentList' = NoList
              /\ request' = NoRequest
              /\ UNCHANGED << Env, step, targeting, clickTargeting, created, postsSent >>

\* the creation POST is answered
PostResponse ==
    /\ pc = "post"
    /\ \E r \in PostResponses :
         /\ postResponse' = Some(r)
         /\ IF ~Ok(r.status)
            THEN /\ errorMsg' = StatusMessage(r.status, r.detail)
                 /\ UNCHANGED << successMsg, timerPending >>
            ELSE /\ successMsg' = "created"
                 /\ timerPending' = TRUE
                 /\ UNCHANGED errorMsg
    /\ isLoading' = FALSE
    /\ pc' = "idle"
    /\ contentList' = NoList
    /\ request' = NoRequest
    /\ UNCHANGED << Env, step, targeting, clickTargeting, created, postsSent >>

PostRejected ==
    /\ pc = "post"
    /\ Catch

\* the timer armed after a successful creation calls onCreated; the sidebar
\* then shows the experiment in place of this component
OnCreatedTimer ==
    /\ timerPending
    /\ timerPending' = FALSE
    /\ created' = TRUE
    /\ UNCHANGED << Env, step, targeting, pc, clickTargeting, isLoading, errorMsg,
                    successMsg, contentList, request, postResponse, postsSent >>

\* the dismiss buttons of the message panels (one-button version)
DismissError ==
    /\ Mounted /\ version = "simple" /\ errorMsg # "null"
    /\ errorMsg' = "null"
    /\ UNCHANGED << Env, step, targeting, pc, clickTargeting, isLoading, successMsg,
                    contentList, request, timerPending, created, postResponse, postsSent >>

DismissSuccess ==
    /\ Mounted /\ version = "simple" /\ successMsg # "null"
    /\ successMsg' = "null"
    /\ UNCHANGED << Env, step, targeting, pc, clickTargeting, isLoading, errorMsg,
                    contentList, request, timerPending, created, postResponse, postsSent >>

Next ==
    \/ SelectTemplate
    \/ BackToTemplate
    \/ SetTargeting
    \/ GoReview
    \/ BackToConfigure
    \/ CreateClick
    \/ TokenResolved
    \/ TokenRejected
    \/ ListResponse
    \/ ListRejected
    \/ PostResponse
    \/ PostRejected
    \/ OnCreatedTimer
    \/ DismissError
    \/ DismissSuccess

Spec == Init /\ [][Next]_vars

\* ------------------------------------------------------------------------
\* Properties of the creation request
\* ------------------------------------------------------------------------

RECURSIVE SumPercent(_)
SumPercent(ffv) ==
    IF ffv = <<>> THEN 0
    ELSE Head(ffv).rollout_percentage + SumPercent(Tail(ffv))

\* the total rollout the user asked for when Create was clicked
RequestedRollout == IF version = "simple" THEN 100 ELSE clickTargeting

Sent == request # NoRequest

Keys(ffv) == [ i \in 1..Len(ffv) |-> ffv[i].key ]

Percents(ffv) == [ i \in 1..Len(ffv) |-> ffv[i].rollout_percentage ]

\* C1: in every creation request the rollout percentages of
\* feature_flag_variants sum exactly to the requested total rollout (the
\* slider value of the wizard, 100 in the one-button version).
C1_SumIsRequestedRollout ==
    Sent => SumPercent(request) = RequestedRollout

\* a request of three variants for a total of 70, which 3 does not divide
C1_Witness ==
    /\ Sent /\ version = "wizard"
    /\ Len(request) = 3 /\ clickTargeting = 70
    /\ SumPercent(request) = 70

\* C2: with base = floor(total / n) and remainder = total - base * n, the
\* variant at zero-based position i receives base + 1 if i < remainder and
\* base otherwise; [control, a, b] with total 100 receives 34, 33, 33.
C2_PositionalShare ==
    Sent =>
        LET n == Len(request)
            base == RequestedRollout \div n
            rem == RequestedRollout % n
        IN  /\ \A p \in 1..n :
                 request[p].rollout_percentage = IF p - 1 < rem THEN base + 1 ELSE base
            /\ ( /\ Keys(request) = <<Str("control"), Str("a"), Str("b")>>
                 /\ RequestedRollout = 100 )
               => Percents(request) = <<34, 33, 33>>

\* the request for [control, a, b] and a total of 100
C2_Witness ==
    /\ Sent
    /\ Keys(request) = <<Str("control"), Str("a"), Str("b")>>
    /\ RequestedRollout = 100
    /\ Percents(request) = <<34, 33, 33>>

\* C3: the creation POST is sent only if the content item is saved and at
\* least one variant key was obtained from the CMS list, so an experiment
\* whose only variant is "control" is never created.
C3_NeverControlOnly ==
    Sent =>
        /\ contentItem # Null /\ contentItem[1] >= 1
        /\ Len(request) >= 2

\* C4: the keys of feature_flag_variants in a creation request are pairwise
\* distinct (no CMS value repeats another, none equals "control").
C4_KeysDistinct ==
    Sent =>
        \A p, q \in 1..Len(request) :
            p # q => request[p].key # request[q].key

\* the value a CMS item yields: the first truthy of its Variant and variant
\* fields, for an array item those of its first nested item
C6_Yield(item) ==
    LET cands == IF ~item.isArray THEN <<item.Variant, item.variant>>
                 ELSE IF item.elems = <<>> THEN <<>>
                 ELSE <<item.elems[1].Variant, item.elems[1].variant>>
        hits == { c \in 1..Len(cands) : Truthy(cands[c]) }
    IN  IF hits = {} THEN Undef
        ELSE cands[CHOOSE c \in hits : \A d \in hits : c <= d]

\* the number of items up to position i that yield a value
C6_Rank(items, i) == Cardinality({ k \in 1..i : Truthy(C6_Yield(items[k])) })

\* C6: the keys of feature_flag_variants are "control" followed by the
\* values extracted from the CMS list, in CMS list order, each with the
\* percentage the allocation gives its position; nothing is added, dropped
\* or reordered.
C6_ControlThenCmsOrder ==
    Sent =>
        LET items == contentList.items
            n == Len(request)
        IN  /\ n = 1 + C6_Rank(items, Len(items))
            /\ request[1].key = Str("control")
            /\ \A i \in 1..Len(items) :
                 Truthy(C6_Yield(items[i]))
                     => request[1 + C6_Rank(items, i)].key = C6_Yield(items[i])
            /\ \A p \in 1..n :
                 request[p].rollout_percentage
                     = (RequestedRollout \div n) + (IF p - 1 < RequestedRollout % n THEN 1 ELSE 0)

\* a request built from a list whose first item yields nothing and whose
\* second item yields "b" through the lowercase field
C6_Witness ==
    /\ Sent
    /\ Len(contentList.items) = 2
    /\ contentList.items[1] = Obj(Str(""), Undef)
    /\ contentList.items[2] = Obj(Undef, Str("b"))
    /\ Keys(request) = <<Str("control"), Str("b")>>

\* C7: an item contributes a key only if its field holds a non-empty
\* string; every non-control key of the request is a non-empty string.
C7_KeysAreNonEmptyStrings ==
    Sent =>
        \A p \in 2..Len(request) :
            request[p].key.t = "str" /\ request[p].key.s # ""

\* ------------------------------------------------------------------------
\* The allocation as a function of its inputs
\* ------------------------------------------------------------------------

\* synthetic variant keys, "control" first
KeyNames == << "control", "v1", "v2", "v3", "v4", "v5", "v6", "v7", "v8",
               "v9", "v10", "v11", "v12", "v13", "v14", "v15" >>

AllocKeyLists ==
    { [ i \in 1..n |-> Str(KeyNames[i]) ] : n \in 1..MaxAllocKeys }

\* totalRolloutPercent: an integer of [0,100]
RolloutDomain == 0..100

CreateIdle ==
    /\ version = "wizard"
    /\ contentItem = Some(5)
    /\ sdkReady = TRUE
    /\ variantsField = TRUE
    /\ step = "template"
    /\ targeting = 100
    /\ pc = "idle"
    /\ clickTargeting = 100
    /\ isLoading = FALSE
    /\ errorMsg = "null"
    /\ successMsg = "null"
    /\ contentList = NoList
    /\ request = NoRequest
    /\ timerPending = FALSE
    /\ created = FALSE
    /\ postResponse = Null
    /\ postsSent = 0

InitAlloc ==
    /\ allocKeys \in AllocKeyLists
    /\ allocRollout \in RolloutDomain
    /\ allocOut = <<>>
    /\ CreateIdle
    /\ ResultsIdle
    /\ StatsIdle
    /\ SidebarIdle
    /\ ModalIdle
    /\ PageIdle

\* lines 225-234 of createExperiment applied to (allVariants, targeting)
Allocate ==
    /\ allocOut = <<>>
    /\ allocOut' = FeatureFlagVariants(allocKeys, EffectiveRollout("wizard", allocRollout))
    /\ UNCHANGED << allocKeys, allocRollout, createVars, resultsVars, statsVars,
                    sidebarVars, modalVars, pageVars >>

NextAlloc == Allocate

SpecAlloc == InitAlloc /\ [][NextAlloc]_vars

Sample(k, n, steps, sm, sc, fc, ctw) ==
    [ key |-> k, number_of_samples |-> n, step_counts |-> steps, sum |-> sm,
      success_count |-> sc, failure_count |-> fc, chance_to_win |-> ctw ]

BaselineSamples ==
    { Sample("control", 1000, Some(<<40, 20>>), Some(999), Some(5), Null, Some(50)),
      Sample("control", 0, Some(<<40>>), Null, Null, Null, Some(30)),
      Sample("control", 1000, Some(<<>>), Some(250), Some(5), Null, Some(0)),
      Sample("control", 1000, Null, Some(250), Null, Null, Some(70)),
      Sample("control", 0, Null, Null, Some(5), Null, Null),
      Sample("control", 1000, Null, Null, Null, Null, Some(50)) }

VariantKeys == {"a", "1", "2"}

VariantSamples ==
    { Sample(k, 1000, Some(<<40>>), Some(999), Null, Null, Some(50)) : k \in VariantKeys }
    \cup { Sample(k, 1000, Null, Some(300), Null, Null, Some(70)) : k \in VariantKeys }
    \cup { Sample(k, 0, Some(<<40>>), Null, Some(5), Some(3), Null) : k \in VariantKeys }
    \cup { Sample(k, 1000, Null, Null, Null, Null, Some(0)) : k \in VariantKeys }

\* variant_results arrays: the keys of one experiment are pairwise distinct
VariantResultsLists ==
    { vr \in UNION { [1..k -> VariantSamples] : k \in 0..MaxVariantResults } :
        \A i, j \in 1..Len(vr) : i # j => vr[i].key # vr[j].key }

Result(b, vr, sig, ci) ==
    [ baseline |-> b, variant_results |-> vr, significant |-> sig,
      credible_intervals |-> ci ]

\* an entry of credible_intervals: the interval of a variant key, in percent
Interval(k, lo, hi) == [ key |-> k, interval |-> <<lo, hi>> ]

\* significant and credible_intervals of a response: both absent, or both
\* present with one interval or with none
SignificanceSamples ==
    { [ significant |-> Null, credible_intervals |-> Null ],
      [ significant |-> Some(TRUE),
        credible_intervals |-> Some(<<Interval("control", 10, 20)>>) ],
      [ significant |-> Some(FALSE), credible_intervals |-> Some(<<>>) ] }

Metric(nm, id) == [ name |-> nm, uuid |-> id ]

\* the result of the first query that was answered ok
PrimaryMetricResults ==
    { [ metric |-> Metric("m1", "u1"),
        result |-> Result(b, vr, sg.significant, sg.credible_intervals) ] :
        b \in {Null} \cup { Some(x) : x \in BaselineSamples },
        vr \in {Null} \cup { Some(x) : x \in VariantResultsLists },
        sg \in SignificanceSamples }

\* the results of the further queries that were answered ok
FurtherMetricResults ==
    { [ metric |-> Metric("m2", "u2"),
        result |-> Result(Some(Sample("control", 1000, Null, Null, Null, Null, Some(70))),
                          Some(<<Sample("a", 1000, Null, Some(7), Null, Null, Some(30))>>),
                          Some(TRUE), Some(<<Interval("a", 1, 2)>>)) ],
      [ metric |-> Metric("m3", "u3"),
        result |-> Result(Null, Null, Null, Null) ] }

FurtherLists == UNION { [1..k -> FurtherMetricResults] : k \in 0..(MaxMetrics - 1) }

\* validResults: never empty when transformResults is called
MetricResultsLists ==
    { <<p>> \o f : p \in PrimaryMetricResults, f \in FurtherLists }

\* v.step_counts?.[0]
StepCount0(v) ==
    IF v.step_counts = Null THEN Null
    ELSE IF Len(v.step_counts[1]) >= 1 THEN Some(v.step_counts[1][1])
    ELSE Null

\* v.step_counts?.[0] ?? v.sum ?? v.success_count
SuccessSignal(v) == Coalesce(Coalesce(StepCount0(v), v.sum), v.success_count)

\* an element of allVariants
TopVariant(v) ==
    [ key |-> v.key,
      count |-> v.number_of_samples,
      absolute_exposure |-> v.number_of_samples,
      success_count |-> Coalesce(SuccessSignal(v), Some(0)),
      failure_count |-> v.failure_count ]

\* an element of primary_metric_results[].variants
MetricVariant(v) ==
    [ key |-> v.key,
      count |-> Coalesce(Coalesce(StepCount0(v), v.sum), Some(0))[1],
      exposure |-> v.number_of_samples,
      absolute_exposure |-> v.number_of_samples,
      success_count |-> SuccessSignal(v),
      failure_count |-> v.failure_count ]

\* the samples of a result: the baseline, if any, then variant_results
Baseline(result) == IF result.baseline # Null THEN <<result.baseline[1]>> ELSE <<>>

Others(result) == IF result.variant_results # Null THEN result.variant_results[1] ELSE <<>>

\* obj[k] = v on an object kept as its properties in insertion order
Put(obj, k, v) ==
    IF \E i \in 1..Len(obj) : obj[i].key = k
    THEN [ i \in 1..Len(obj) |-> IF obj[i].key = k THEN [key |-> k, prob |-> v] ELSE obj[i] ]
    ELSE Append(obj, [key |-> k, prob |-> v])

\* variant of PutChance: a null chance_to_win is stored as 0
PutChanceDefaultZero(obj, v) ==
    Put(obj, v.key, Coalesce(v.chance_to_win, Some(0))[1])

\* if (v.chance_to_win != null) probability[v.key] = v.chance_to_win
PutChance(obj, v) ==
    IF v.chance_to_win # Null THEN Put(obj, v.key, v.chance_to_win[1]) ELSE obj

RECURSIVE PutChances(_, _)
PutChances(obj, samples) ==
    IF samples = <<>> THEN obj
    ELSE PutChances(PutChance(obj, Head(samples)), Tail(samples))

\* variant of TopVariants: the samples are listed last to first
TopVariantsReversed(samples) ==
    [ i \in 1..Len(samples) |-> TopVariant(samples[Len(samples) + 1 - i]) ]

\* samples.map(TopVariant)
TopVariants(samples) == [ i \in 1..Len(samples) |-> TopVariant(samples[i]) ]

\* samples.map(MetricVariant)
MetricVariants(samples) == [ i \in 1..Len(samples) |-> MetricVariant(samples[i]) ]

\* an element of primary_metric_results
PrimaryMetricResult(m) ==
    [ action |-> [name |-> m.metric.name, id |-> m.metric.uuid],
      variants |-> MetricVariants(Baseline(m.result)) \o MetricVariants(Others(m.result)) ]

\* variant of Significant: significance derived from the chances to win
SignificantFromChances(primaryResult) ==
    \E i \in 1..Len(Others(primaryResult)) :
        /\ Others(primaryResult)[i].chance_to_win # Null
        /\ Others(primaryResult)[i].chance_to_win[1] >= 70

\* primaryResult?.significant ?? false
Significant(primaryResult) == Coalesce(primaryResult.significant, Some(FALSE))[1]

\* primaryResult?.credible_intervals || {}
CredibleIntervals(primaryResult) ==
    IF primaryResult.credible_intervals # Null
    THEN primaryResult.credible_intervals[1] ELSE <<>>

transformResults(mrs) ==
    LET primaryResult == mrs[1].result
        allVariants == TopVariants(Baseline(primaryResult))
                       \o TopVariants(Others(primaryResult))
        probability == PutChances(PutChances(<<>>, Baseline(primaryResult)),
                                  Others(primaryResult))
    IN  [ variants |-> allVariants,
          probability |-> probability,
          significant |-> Significant(primaryResult),
          credible_intervals |-> CredibleIntervals(primaryResult),
          primary_metric_results |-> [ i \in 1..Len(mrs) |-> PrimaryMetricResult(mrs[i]) ] ]

\* ------------------------------------------------------------------------
\* The results route: GET
\* ------------------------------------------------------------------------

\* statuses of the experiment fetch
ExperimentStatuses == {200, 404, 500}

\* which of the queries of experiment.metrics got an ok response
OkPatterns == UNION { [1..k -> BOOLEAN] : k \in 0..MaxMetrics }

RECURSIVE CountOk(_)
CountOk(p) ==
    IF p = <<>> THEN 0 ELSE (IF Head(p) THEN 1 ELSE 0) + CountOk(Tail(p))

\* the results of n queries that got an ok response
ResultsOfLen(n) ==
    IF n = 0 THEN { <<>> }
    ELSE { <<p>> \o f : p \in PrimaryMetricResults,
                         f \in [1..(n - 1) -> FurtherMetricResults] }

\* what Promise.all resolves to: null for a response that was not ok,
\* { metric, result } otherwise
Outcome(p, mrs) ==
    [ i \in 1..Len(p) |-> IF p[i] THEN Some(mrs[CountOk(SubSeq(p, 1, i))]) ELSE Null ]

NotNull(r) == r # Null

\* metricResults.filter(r => r !== null)
ValidResults(outcome) ==
    LET valid == SelectSeq(outcome, NotNull)
    IN  [ i \in 1..Len(valid) |-> valid[i][1] ]

\* { error } with a status
ErrorResponse(message, status) == [ error |-> message, status |-> status ]

\* variant of NoResultsSignal: an output of transformResults without data
NoResultsSignalAsEmptyOutput(reason) ==
    [ variants |-> <<>>, probability |-> <<>>, significant |-> FALSE,
      credible_intervals |-> <<>>, primary_metric_results |-> <<>> ]

\* { noResults: true, reason }
NoResultsSignal(reason) == [ noResults |-> TRUE, reason |-> reason ]

\* !experiment.metrics || experiment.metrics.length === 0
NoMetrics(queries) == IF queries = Null THEN TRUE ELSE queries[1] = <<>>

\* ------------------------------------------------------------------------
\* The ExperimentResults component
\* ------------------------------------------------------------------------

\* a quotient of two integers, kept as numerator and denominator
Rat(n, d) == [ num |-> n, den |-> d ]

\* variant.absolute_exposure || variant.count || 0
Exposures(v) ==
    IF v.absolute_exposure # 0 THEN v.absolute_exposure
    ELSE IF v.count # 0 THEN v.count
    ELSE 0

\* variants.reduce((sum, v) => sum + (v.absolute_exposure || v.count || 0), 0)
RECURSIVE TotalExposures(_)
TotalExposures(variants) ==
    IF variants = <<>> THEN 0
    ELSE Exposures(Head(variants)) + TotalExposures(Tail(variants))

\* variant of ExposurePercent: the quotient is taken whatever the total
ExposurePercentUnguarded(exposures, total) == Rat(exposures * 100, total)

\* totalExposures > 0 ? (exposures / totalExposures) * 100 : 0
ExposurePercent(exposures, total) ==
    IF total > 0 THEN Rat(exposures * 100, total) ELSE Rat(0, 1)

\* v.exposure && v.success_count !== undefined
\*     ? (v.success_count / v.exposure) * 100 : null
ConversionRate(v) ==
    IF v.exposure # 0 /\ v.success_count # Null
    THEN Some(Rat(v.success_count[1] * 100, v.exposure))
    ELSE Null

\* the conversion rates of the variants of one metric
ConversionRates(metric) ==
    [ i \in 1..Len(metric.variants) |-> ConversionRate(metric.variants[i]) ]

\* the keys that are array indices, with their numeric value
ArrayIndexValue == ("1" :> 1) @@ ("2" :> 2)

IsArrayIndex(k) == k \in DOMAIN ArrayIndexValue

RECURSIVE SortByIndex(_)
SortByIndex(es) ==
    IF es = <<>> THEN <<>>
    ELSE LET m == CHOOSE i \in 1..Len(es) :
                      \A j \in 1..Len(es) :
                          ArrayIndexValue[es[i].key] <= ArrayIndexValue[es[j].key]
         IN  <<es[m]>> \o SortByIndex(SubSeq(es, 1, m - 1) \o SubSeq(es, m + 1, Len(es)))

IndexEntry(e) == IsArrayIndex(e.key)

NamedEntry(e) == ~IsArrayIndex(e.key)

\* Object.entries(obj): array-index keys in ascending order, then the
\* other keys in insertion order
ObjectEntries(obj) ==
    SortByIndex(SelectSeq(obj, IndexEntry)) \o SelectSeq(obj, NamedEntry)

\* variant of Better: a later entry of equal probability replaces the best
BetterOrEqual(best, e) == IF e.prob >= best.prob THEN e ELSE best

\* (best, [key, prob]) => (prob > best.prob ? { key, prob } : best)
Better(best, e) == IF e.prob > best.prob THEN e ELSE best

RECURSIVE Reduce(_, _)
Reduce(best, entries) ==
    IF entries = <<>> THEN best
    ELSE Reduce(Better(best, Head(entries)), Tail(entries))

\* const winningVariant = Object.entries(probability).reduce(..., {key:'', prob:0})
WinningVariant(probability) ==
    Reduce([key |-> "", prob |-> 0], ObjectEntries(probability))

InitResults ==
    /\ resPc = "query"
    /\ \/ /\ fetchRejected = FALSE
          /\ experimentStatus = 200
          /\ \/ metricQueries = Null
             \/ \E p \in OkPatterns : \E mrs \in ResultsOfLen(CountOk(p)) :
                    metricQueries = Some(Outcome(p, mrs))
       \/ /\ fetchRejected = FALSE
          /\ experimentStatus \in ExperimentStatuses \ {200}
          /\ metricQueries = Null
       \/ /\ fetchRejected = TRUE
          /\ experimentStatus = 200
          /\ metricQueries = Null
    /\ metricResults = <<>>
    /\ results = Null
    /\ winningVariant = Null
    /\ totalExposures = Null
    /\ exposurePercent = Null
    /\ conversionRate = Null
    /\ CreateIdle
    /\ AllocIdle
    /\ StatsIdle
    /\ SidebarIdle
    /\ ModalIdle
    /\ PageIdle

\* what the route and the render never change
RouteInputs == << experimentStatus, fetchRejected, metricQueries >>

RenderIdle == << winningVariant, totalExposures, exposurePercent, conversionRate >>

\* the experiment fetch got a response that is not ok
ExperimentError ==
    /\ resPc = "query"
    /\ ~fetchRejected
    /\ ~Ok(experimentStatus)
    /\ results' = Some(ErrorResponse("Failed to fetch experiment", experimentStatus))
    /\ resPc' = "error"
    /\ UNCHANGED << RouteInputs, metricResults, RenderIdle, createVars, allocVars, statsVars,
                    sidebarVars, modalVars, pageVars >>

\* a fetch of the route rejected: the catch block
RouteCatch ==
    /\ resPc = "query"
    /\ fetchRejected
    /\ results' = Some(ErrorResponse("Failed to fetch experiment results", 500))
    /\ resPc' = "error"
    /\ UNCHANGED << RouteInputs, metricResults, RenderIdle, createVars, allocVars, statsVars,
                    sidebarVars, modalVars, pageVars >>

\* no metric is configured, or no query got an ok response
NoResults ==
    /\ resPc = "query"
    /\ ~fetchRejected
    /\ Ok(experimentStatus)
    /\ \/ /\ NoMetrics(metricQueries)
          /\ results' = Some(NoResultsSignal("No metrics configured"))
       \/ /\ ~NoMetrics(metricQueries)
          /\ ValidResults(metricQueries[1]) = <<>>
          /\ results' = Some(NoResultsSignal("No valid metric results"))
    /\ resPc' = "noResults"
    /\ UNCHANGED << RouteInputs, metricResults, RenderIdle, createVars, allocVars, statsVars,
                    sidebarVars, modalVars, pageVars >>

\* the route hands validResults to transformResults and returns the outcome
Transform ==
    /\ resPc = "query"
    /\ ~fetchRejected
    /\ Ok(experimentStatus)
    /\ ~NoMetrics(metricQueries)
    /\ ValidResults(metricQueries[1]) # <<>>
    /\ metricResults' = ValidResults(metricQueries[1])
    /\ results' = Some(transformResults(metricResults'))
    /\ resPc' = "transformed"
    /\ UNCHANGED << RouteInputs, RenderIdle, createVars, allocVars, statsVars,
                    sidebarVars, modalVars, pageVars >>

\* ExperimentResults renders the results it was given
Render ==
    /\ resPc = "transformed"
    /\ winningVariant' = Some(WinningVariant(results[1].probability))
    /\ totalExposures' = Some(TotalExposures(results[1].variants))
    /\ exposurePercent' =
          Some([ i \in 1..Len(results[1].variants) |->
                   ExposurePercent(Exposures(results[1].variants[i]), totalExposures'[1]) ])
    /\ conversionRate' =
          Some([ m \in 1..Len(results[1].primary_metric_results) |->
                   ConversionRates(results[1].primary_metric_results[m]) ])
    /\ resPc' = "rendered"
    /\ UNCHANGED << RouteInputs, metricResults, results, createVars, allocVars,
                    statsVars, sidebarVars, modalVars, pageVars >>

NextResults ==
    \/ ExperimentError
    \/ RouteCatch
    \/ NoResults
    \/ Transform
    \/ Render

SpecResults == InitResults /\ [][NextResults]_vars

\* ------------------------------------------------------------------------
\* Properties of the results
\* ------------------------------------------------------------------------

Transformed == resPc \in {"transformed", "rendered"}

Rendered == resPc = "rendered"

\* the samples of a result, baseline first
C8_Samples(result) == Baseline(result) \o Others(result)

\* the first non-null of step_counts[0], sum and success_count, else 0
C8_Expected(v) ==
    IF v.step_counts # Null /\ Len(v.step_counts[1]) >= 1 THEN v.step_counts[1][1]
    ELSE IF v.sum # Null THEN v.sum[1]
    ELSE IF v.success_count # Null THEN v.success_count[1]
    ELSE 0

\* C8: in the top-level variants and in every
\* primary_metric_results[].variants, success_count is the first non-null
\* of step_counts[0], sum, success_count, and 0 when none is present.
C8_SuccessCountPrecedence ==
    Transformed =>
        LET out == results[1]
            top == C8_Samples(metricResults[1].result)
        IN  /\ \A i \in 1..Len(top) :
                 out.variants[i].success_count = Some(C8_Expected(top[i]))
            /\ \A m \in 1..Len(metricResults) :
                 LET ins == C8_Samples(metricResults[m].result)
                 IN  \A i \in 1..Len(ins) :
                         out.primary_metric_results[m].variants[i].success_count
                             = Some(C8_Expected(ins[i]))

\* C9: the probability map has an entry for a variant exactly when its
\* chance_to_win is non-null, and the entry equals that value; a null
\* chance_to_win is never turned into 0.
C9_ProbabilityOnlyWhenPresent ==
    Transformed =>
        LET prob == results[1].probability
            ins == C8_Samples(metricResults[1].result)
        IN  /\ \A i \in 1..Len(ins) :
                 /\ (ins[i].chance_to_win # Null)
                        <=> (\E e \in 1..Len(prob) : prob[e].key = ins[i].key)
                 /\ \A e \in 1..Len(prob) :
                        prob[e].key = ins[i].key => Some(prob[e].prob) = ins[i].chance_to_win
            /\ \A e \in 1..Len(prob) : \E i \in 1..Len(ins) : ins[i].key = prob[e].key
            /\ \A e, f \in 1..Len(prob) : e # f => prob[e].key # prob[f].key

\* a baseline with a computed probability of 0 next to a variant whose
\* chance_to_win is null
C9_Witness ==
    /\ Transformed
    /\ metricResults[1].result.baseline # Null
    /\ metricResults[1].result.baseline[1].chance_to_win = Some(0)
    /\ metricResults[1].result.variant_results # Null
    /\ Len(metricResults[1].result.variant_results[1]) = 1
    /\ metricResults[1].result.variant_results[1][1].chance_to_win = Null
    /\ results[1].probability = <<[key |-> "control", prob |-> 0]>>

\* the largest probability of the map
C10_Max(prob) ==
    CHOOSE x \in { prob[e].prob : e \in 1..Len(prob) } :
        \A e \in 1..Len(prob) : prob[e].prob <= x

\* C10 as claimed: whenever the map is non-empty, the winning variant is
\* the entry of highest probability, the first in insertion order among
\* several of that probability.
C10_WinnerIsFirstMax ==
    (Rendered /\ results[1].probability # <<>>) =>
        LET prob == results[1].probability
            first == CHOOSE e \in 1..Len(prob) :
                         /\ prob[e].prob = C10_Max(prob)
                         /\ \A f \in 1..(e - 1) : prob[f].prob # C10_Max(prob)
        IN  winningVariant[1] = prob[first]

\* entry e is enumerated before entry f: array-index keys in ascending
\* order first, then the other keys in insertion order
C10_Before(prob, e, f) ==
    IF IsArrayIndex(prob[e].key)
    THEN IsArrayIndex(prob[f].key) => ArrayIndexValue[prob[e].key] < ArrayIndexValue[prob[f].key]
    ELSE ~IsArrayIndex(prob[f].key) /\ e < f

\* C10: whenever the map has an entry of probability greater than 0, the
\* winning variant is the entry of highest probability, and among several
\* of that probability the first in the enumeration order of the map
\* (array-index keys ascending, then the other keys in insertion order);
\* when no entry is greater than 0 no variant is identified.
C10_WinnerAmended ==
    Rendered =>
        LET prob == results[1].probability
        IN  IF \E e \in 1..Len(prob) : prob[e].prob > 0
            THEN \E e \in 1..Len(prob) :
                    /\ winningVariant[1] = prob[e]
                    /\ prob[e].prob = C10_Max(prob)
                    /\ \A f \in 1..Len(prob) :
                           (f # e /\ prob[f].prob = C10_Max(prob)) => C10_Before(prob, e, f)
            ELSE winningVariant[1] = [key |-> "", prob |-> 0]

\* control and a tie at 50, which is the highest probability: control wins
C10_Witness ==
    /\ Rendered
    /\ results[1].probability
          = <<[key |-> "control", prob |-> 50], [key |-> "a", prob |-> 50]>>
    /\ winningVariant[1] = [key |-> "control", prob |-> 50]

\* C11 as claimed: for each variant of each metric, conversionRate equals
\* successCount / exposureCount * 100 whenever exposureCount > 0, where
\* successCount is the first non-null of step_counts[0], sum and
\* success_count and 0 when none is present, and conversionRate has no
\* value when exposureCount is 0.
C11_ConversionRate ==
    Rendered =>
        \A m \in 1..Len(metricResults) :
            LET ins == C8_Samples(metricResults[m].result)
            IN  \A i \in 1..Len(ins) :
                    LET rate == conversionRate[1][m][i]
                    IN  IF ins[i].number_of_samples > 0
                        THEN /\ rate # Null
                             /\ rate[1].den # 0
                             /\ rate[1].num * ins[i].number_of_samples
                                    = C8_Expected(ins[i]) * 100 * rate[1].den
                        ELSE rate = Null

\* the route answered without an error
C12_Answered == resPc \in {"noResults", "transformed", "rendered"}

\* every query of the configured metrics got a response that was not ok
C12_AllFailed ==
    /\ metricQueries # Null
    /\ \A i \in 1..Len(metricQueries[1]) : metricQueries[1][i] = Null

RECURSIVE C15_Total(_)
C15_Total(samples) ==
    IF samples = <<>> THEN 0
    ELSE Head(samples).number_of_samples + C15_Total(Tail(samples))

\* C15: when the total exposure over all variants is 0, every per-variant
\* percentage is 0 and no quotient by 0 is taken; when it is positive,
\* each percentage equals exposureCount / totalExposures * 100, a variant
\* without exposure adding 0 to the total.
C15_PercentOfTotal ==
    Rendered =>
        LET ins == C8_Samples(metricResults[1].result)
            total == C15_Total(ins)
        IN  /\ totalExposures[1] = total
            /\ Len(exposurePercent[1]) = Len(ins)
            /\ \A i \in 1..Len(ins) :
                 LET pct == exposurePercent[1][i]
                 IN  /\ pct.den # 0
                     /\ IF total = 0 THEN pct.num = 0
                        ELSE pct.num * total = ins[i].number_of_samples * 100 * pct.den

\* a baseline without exposure next to two variants of 1000 exposures
C15_Witness ==
    /\ Rendered
    /\ totalExposures[1] = 2000
    /\ exposurePercent[1] = <<Rat(0, 2000), Rat(100000, 2000), Rat(100000, 2000)>>

\* C16: the significant field of the output equals the significance flag
\* of the primary metric result when upstream supplies a boolean and is
\* false when the flag is absent or null, whatever the counts and the
\* chances to win.
C16_SignificantPassedThrough ==
    Transformed =>
        LET sig == metricResults[1].result.significant
        IN  IF sig # Null THEN results[1].significant = sig[1]
            ELSE results[1].significant = FALSE

\* no flag upstream while a variant has a chance to win of 70
C16_Witness ==
    /\ Transformed
    /\ metricResults[1].result.significant = Null
    /\ \E i \in 1..Len(Others(metricResults[1].result)) :
           Others(metricResults[1].result)[i].chance_to_win = Some(70)
    /\ results[1].significant = FALSE

\* the keys of a list of variants
C17_Keys(variants) == [ i \in 1..Len(variants) |-> variants[i].key ]

\* C17: the top-level variants and every primary_metric_results[].variants
\* list the baseline first and then variant_results in upstream order.
C17_BaselineThenUpstreamOrder ==
    Transformed =>
        /\ C17_Keys(results[1].variants) = C17_Keys(C8_Samples(metricResults[1].result))
        /\ \A m \in 1..Len(metricResults) :
               C17_Keys(results[1].primary_metric_results[m].variants)
                   = C17_Keys(C8_Samples(metricResults[m].result))

\* upstream order "2", "a" after the baseline
C17_Witness ==
    /\ Transformed
    /\ C17_Keys(results[1].variants) = <<"control", "2", "a">>
    /\ C17_Keys(results[1].primary_metric_results[1].variants) = <<"control", "2", "a">>

\* ------------------------------------------------------------------------
\* Properties of the response handling of createExperiment
\* ------------------------------------------------------------------------

\* the message of a response that is not ok, by its status
C18_Message(r) ==
    CASE r.status = 401 -> "invalid_api_key"
      [] r.status = 403 -> "access_denied"
      [] r.status = 404 -> "project_not_found"
      [] r.status = 400 ->
            IF r.detail \in {Null, Some("")} THEN "bad_request: check_configuration"
            ELSE "bad_request: " \o r.detail[1]
      [] OTHER -> "failed_status: " \o ToString(r.status)

\* C18: when the creation POST is answered with a status that is not ok,
\* the message shown is the one of the status (401, 403, 404, 400 with the
\* echoed detail, any other status named in a generic message), no success
\* message is set, no call of onCreated is scheduled and none is made.
C18_MessageByStatus ==
    [][ (pc = "post" /\ postResponse' # Null /\ ~Ok(postResponse'[1].status))
          => /\ errorMsg' = C18_Message(postResponse'[1])
             /\ successMsg' = "null"
             /\ timerPending' = timerPending
             /\ created' = created ]_vars

\* a 400 whose body carries a detail
C18_Witness ==
    /\ pc = "idle"
    /\ postResponse = Some([status |-> 400, detail |-> Some("flag_key_exists")])
    /\ errorMsg = "bad_request: flag_key_exists"
    /\ successMsg = "null"
    /\ ~created

\* C20: no retry.  A click issues at most one creation POST, a POST is
\* issued only by the handler that received the content list, the handler
\* ends with the response, and no request leaves an idle component except
\* through a click on Create.
C20_NoRetry ==
    /\ [](postsSent <= 1)
    /\ [][ postsSent' > postsSent => (pc = "list" /\ pc' = "post") ]_vars
    /\ [][ (postResponse = Null /\ postResponse' # Null) => pc' = "idle" ]_vars
    /\ [][ (pc = "idle" /\ pc' # "idle") => CreateClick ]_vars

\* the one POST of a click was answered with 500 and the component is idle
C20_Witness ==
    /\ pc = "idle"
    /\ postsSent = 1
    /\ postResponse = Some([status |-> 500, detail |-> Null])
    /\ errorMsg = "failed_status: 500"
    /\ ~isLoading

\* ------------------------------------------------------------------------
\* The analytics components: Dashboard, ContentAnalytics, PageAnalytics
\* ------------------------------------------------------------------------

Components == {"Dashboard", "ContentAnalytics", "PageAnalytics"}

\* the queries of fetchStats in the order of its Promise.all, each named by
\* the shape of its rows
Queries(c) ==
    IF c = "Dashboard"
    THEN <<"scalar", "scalar", "scalar", "trend", "topPages", "dist", "dist",
           "label", "label">>
    ELSE IF c = "ContentAnalytics"
    THEN <<"scalar", "pages", "scalar", "scalar", "dist", "dist">>
    ELSE <<"scalar", "scalar", "scalar", "dist", "dist", "label", "label">>

\* results of a query that succeeded; a distribution may come with rows
\* whose counts are 0 (a null count takes the same path: row[1] || 0 and
\* row[0] * row[1] both give 0 for it)
RowsOf(kind) ==
    CASE kind = "scalar" -> { << <<0>> >>, << <<7>> >> }
      [] kind = "dist" -> { <<>>, << <<25, 3>>, <<50, 1>> >>, << <<25, 0>>, <<50, 0>> >> }
      [] kind = "label" -> { <<>>, << <<"", 2>>, <<"x", 1>> >> }
      [] kind = "trend" -> { <<>>, << <<"d1", 4>> >> }
      [] kind = "topPages" -> { <<>>, << <<"", 4, 9>> >> }
      [] kind = "pages" -> { <<>>, << <<9, 4>> >> }

\* what a query settles with
OutcomesOf(kind) == {Null} \cup { Some(rows) : rows \in RowsOf(kind) }

RECURSIVE OutcomeLists(_)
OutcomeLists(kinds) ==
    IF kinds = <<>> THEN { <<>> }
    ELSE { <<o>> \o rest : o \in OutcomesOf(Head(kinds)),
                           rest \in OutcomeLists(Tail(kinds)) }

\* .catch(() => ({ results: [[0]] })) and .catch(() => ({ results: [] }))
DefaultRows(kind) == IF kind = "scalar" THEN << <<0>> >> ELSE <<>>

\* the results of what runHogQLQuery(...).catch(...) resolves to
CaughtRows(outcome, kind) == IF outcome = Null THEN DefaultRows(kind) ELSE outcome[1]

\* result.results?.[0]?.[0] || 0
FirstCell(rows) ==
    IF Len(rows) >= 1 /\ Len(rows[1]) >= 1 /\ rows[1][1] # 0 THEN rows[1][1] ELSE 0

\* raw.reduce((sum, row) => sum + (row[1] || 0), 0)
RECURSIVE TotalEvents(_)
TotalEvents(rows) ==
    IF rows = <<>> THEN 0 ELSE Head(rows)[2] + TotalEvents(Tail(rows))

\* raw.reduce((sum, row) => sum + (row[0] * row[1]), 0)
RECURSIVE WeightedSum(_)
WeightedSum(rows) ==
    IF rows = <<>> THEN 0 ELSE Head(rows)[1] * Head(rows)[2] + WeightedSum(Tail(rows))

\* Math.round(n / d) for n >= 0 and d > 0
Round(n, d) == (2 * n + d) \div (2 * d)

\* total > 0 ? Math.round((row[1] / total) * 100) : 0
Percent(row, total) == IF total > 0 THEN Round(row[2] * 100, total) ELSE 0

\* (row[0] as string) || text
OrText(cell, text) == IF cell = "" THEN text ELSE cell

ScrollDistribution(rows) ==
    [ i \in 1..Len(rows) |->
        [ depth |-> rows[i][1], count |-> rows[i][2],
          percent |-> Percent(rows[i], TotalEvents(rows)) ] ]

TimeDistribution(rows) ==
    [ i \in 1..Len(rows) |->
        [ seconds |-> rows[i][1], count |-> rows[i][2],
          percent |-> Percent(rows[i], TotalEvents(rows)) ] ]

LocaleDistribution(rows) ==
    [ i \in 1..Len(rows) |->
        [ locale |-> OrText(rows[i][1], "Unknown"), count |-> rows[i][2],
          percent |-> Percent(rows[i], TotalEvents(rows)) ] ]

PageViewsTrend(rows) ==
    [ i \in 1..Len(rows) |-> [ date |-> rows[i][1], views |-> rows[i][2] ] ]

TopPages(rows) ==
    [ i \in 1..Len(rows) |->
        [ path |-> OrText(rows[i][1], "/"), views |-> rows[i][2], pageID |-> rows[i][3] ] ]

TopReferrers(rows) ==
    [ i \in 1..Len(rows) |->
        [ referrer |-> OrText(rows[i][1], "Direct"), count |-> rows[i][2] ] ]

TopUtmSources(rows) ==
    [ i \in 1..Len(rows) |-> [ source |-> rows[i][1], count |-> rows[i][2] ] ]

Pages(rows) ==
    [ i \in 1..Len(rows) |-> [ pageID |-> rows[i][1], views |-> rows[i][2] ] ]

\* a JavaScript number that is an integer, and the number NaN
Finite(n) == [ nan |-> FALSE, value |-> n ]

NaN == [ nan |-> TRUE, value |-> 0 ]

\* Math.round(weightedSum / totalTimeEvents): 0 / 0 is NaN and so is its
\* rounding
RoundQuotient(weightedSum, totalTimeEvents) ==
    IF totalTimeEvents = 0 THEN NaN ELSE Finite(Round(weightedSum, totalTimeEvents))

\* Dashboard: the average is taken only over a positive total
AvgTimeOnPageDashboard(rows) ==
    IF Len(rows) > 0 /\ TotalEvents(rows) > 0
    THEN RoundQuotient(WeightedSum(rows), TotalEvents(rows))
    ELSE Finite(0)

\* PageAnalytics: the average is taken whenever there is a row
AvgTimeOnPagePage(rows) ==
    IF Len(rows) > 0
    THEN RoundQuotient(WeightedSum(rows), TotalEvents(rows))
    ELSE Finite(0)

\* the object handed to setStats
StatsOf(c, outcomes) ==
    LET r == [ i \in 1..Len(outcomes) |-> CaughtRows(outcomes[i], Queries(c)[i]) ]
    IN  IF c = "Dashboard"
        THEN [ totalPageViews |-> FirstCell(r[1]),
               uniqueVisitors |-> FirstCell(r[2]),
               avgScrollDepth |-> FirstCell(r[3]),
               avgTimeOnPage |-> AvgTimeOnPageDashboard(r[7]),
               pageViewsTrend |-> PageViewsTrend(r[4]),
               topPages |-> TopPages(r[5]),
               scrollDistribution |-> ScrollDistribution(r[6]),
               timeDistribution |-> TimeDistribution(r[7]),
               localeDistribution |-> LocaleDistribution(r[8]),
               topReferrers |-> TopReferrers(r[9]) ]
        ELSE IF c = "ContentAnalytics"
        THEN [ impressions |-> FirstCell(r[1]),
               uniquePages |-> Len(r[2]),
               avgScrollDepth |-> FirstCell(r[3]),
               ctaClicks |-> FirstCell(r[4]),
               pages |-> Pages(r[2]),
               scrollDistribution |-> ScrollDistribution(r[5]),
               timeDistribution |-> TimeDistribution(r[6]) ]
        ELSE [ pageViews |-> FirstCell(r[1]),
               uniqueVisitors |-> FirstCell(r[2]),
               avgScrollDepth |-> FirstCell(r[3]),
               avgTimeOnPage |-> AvgTimeOnPagePage(r[5]),
               bounceRate |-> 0,
               scrollDistribution |-> ScrollDistribution(r[4]),
               timeDistribution |-> TimeDistribution(r[5]),
               topReferrers |-> TopReferrers(r[6]),
               topUtmSources |-> TopUtmSources(r[7]) ]

\* useState(true) in Dashboard, useState(false) in the other two
InitialLoading(c) == c = "Dashboard"

InitStats ==
    /\ component \in Components
    /\ \/ /\ statsConfigured = TRUE
          /\ queryResults \in OutcomeLists(Queries(component))
       \/ /\ statsConfigured = FALSE
          /\ component # "Dashboard"
          /\ queryResults = <<>>
    /\ statsPc = "mounted"
    /\ statsLoading = InitialLoading(component)
    /\ statsError = Null
    /\ stats = Null
    /\ CreateIdle
    /\ AllocIdle
    /\ ResultsIdle
    /\ SidebarIdle
    /\ ModalIdle
    /\ PageIdle

\* the effect: ContentAnalytics and PageAnalytics return without their id
\* and settings; fetchStats up to its await
FetchStats ==
    /\ statsPc = "mounted"
    /\ statsConfigured
    /\ statsLoading' = TRUE
    /\ statsError' = Null
    /\ statsPc' = "loading"
    /\ UNCHANGED << component, statsConfigured, queryResults, stats, createVars,
                    allocVars, resultsVars, sidebarVars, modalVars, pageVars >>

\* variant of StatsLoaded: one rejected query rejects the whole load
StatsLoadedAllOrNothing ==
    /\ statsPc = "loading"
    /\ IF \E i \in 1..Len(queryResults) : queryResults[i] = Null
       THEN /\ statsError' = Some("Failed to fetch analytics")
            /\ UNCHANGED stats
       ELSE /\ stats' = Some(StatsOf(component, queryResults))
            /\ UNCHANGED statsError
    /\ statsLoading' = FALSE
    /\ statsPc' = "loaded"
    /\ UNCHANGED << component, statsConfigured, queryResults, createVars,
                    allocVars, resultsVars, sidebarVars, modalVars, pageVars >>

\* Promise.all resolves: the processing, setStats and finally
StatsLoaded ==
    /\ statsPc = "loading"
    /\ stats' = Some(StatsOf(component, queryResults))
    /\ statsLoading' = FALSE
    /\ statsPc' = "loaded"
    /\ UNCHANGED << component, statsConfigured, queryResults, statsError, createVars,
                    allocVars, resultsVars, sidebarVars, modalVars, pageVars >>

NextStats ==
    \/ FetchStats
    \/ StatsLoaded

SpecStats == InitStats /\ [][NextStats]_vars

\* ------------------------------------------------------------------------
\* Properties of the analytics loads
\* ------------------------------------------------------------------------

StatsLoadFinished == statsPc = "loaded"

\* the load in which query i succeeded without data instead of failing
C13_SucceededEmpty(i) ==
    [ queryResults EXCEPT ![i] = Some(DefaultRows(Queries(component)[i])) ]

\* C13 as claimed: the state produced by a load tells a failed query from
\* one that succeeded with zero or empty data, so a load with a failed
\* query never ends in the state of the load in which that query succeeded
\* with its zero or empty result.
C13_FailureRecorded ==
    StatsLoadFinished =>
        \A i \in 1..Len(queryResults) :
            queryResults[i] = Null =>
                << stats, statsLoading, statsError >>
                    # << Some(StatsOf(component, C13_SucceededEmpty(i))), FALSE, Null >>

\* the rows a query contributes: its result, or its default when it failed
C14_Rows(i) ==
    IF queryResults[i] # Null THEN queryResults[i][1]
    ELSE IF Queries(component)[i] = "scalar" THEN << <<0>> >>
    ELSE <<>>

\* the count column of a list of the stats
C14_Counts(list, field) == [ i \in 1..Len(list) |-> list[i][field] ]

\* the second column of the rows of query i
C14_Column2(i) == [ j \in 1..Len(C14_Rows(i)) |-> C14_Rows(i)[j][2] ]

\* C14: for every subset of failing queries the load ends with
\* loading = false, error = null and stats set, every number and list of
\* the stats being that of its query's result, or of the zero or empty
\* default when the query failed.
C14_PartialFailureTolerated ==
    StatsLoadFinished =>
        /\ statsLoading = FALSE
        /\ statsError = Null
        /\ stats # Null
        /\ LET st == stats[1]
           IN  IF component = "Dashboard"
               THEN /\ st.totalPageViews = C14_Rows(1)[1][1]
                    /\ st.uniqueVisitors = C14_Rows(2)[1][1]
                    /\ st.avgScrollDepth = C14_Rows(3)[1][1]
                    /\ C14_Counts(st.pageViewsTrend, "views") = C14_Column2(4)
                    /\ C14_Counts(st.topPages, "views") = C14_Column2(5)
                    /\ C14_Counts(st.scrollDistribution, "count") = C14_Column2(6)
                    /\ C14_Counts(st.timeDistribution, "count") = C14_Column2(7)
                    /\ C14_Counts(st.localeDistribution, "count") = C14_Column2(8)
                    /\ C14_Counts(st.topReferrers, "count") = C14_Column2(9)
                    /\ (C14_Rows(7) = <<>>) => st.avgTimeOnPage = Finite(0)
               ELSE IF component = "ContentAnalytics"
               THEN /\ st.impressions = C14_Rows(1)[1][1]
                    /\ st.uniquePages = Len(C14_Rows(2))
                    /\ C14_Counts(st.pages, "views") = C14_Column2(2)
                    /\ st.avgScrollDepth = C14_Rows(3)[1][1]
                    /\ st.ctaClicks = C14_Rows(4)[1][1]
                    /\ C14_Counts(st.scrollDistribution, "count") = C14_Column2(5)
                    /\ C14_Counts(st.timeDistribution, "count") = C14_Column2(6)
               ELSE /\ st.pageViews = C14_Rows(1)[1][1]
                    /\ st.uniqueVisitors = C14_Rows(2)[1][1]
                    /\ st.avgScrollDepth = C14_Rows(3)[1][1]
                    /\ C14_Counts(st.scrollDistribution, "count") = C14_Column2(4)
                    /\ C14_Counts(st.timeDistribution, "count") = C14_Column2(5)
                    /\ C14_Counts(st.topReferrers, "count") = C14_Column2(6)
                    /\ C14_Counts(st.topUtmSources, "count") = C14_Column2(7)
                    /\ (C14_Rows(5) = <<>>) => st.avgTimeOnPage = Finite(0)

\* a Dashboard load whose first query failed while the second returned 7
\* and the top referrers two rows
C14_Witness ==
    /\ StatsLoadFinished
    /\ component = "Dashboard"
    /\ queryResults[1] = Null
    /\ queryResults[2] = Some(<< <<7>> >>)
    /\ queryResults[6] = Null
    /\ queryResults[9] # Null
    /\ stats # Null
    /\ stats[1].totalPageViews = 0
    /\ stats[1].uniqueVisitors = 7
    /\ stats[1].scrollDistribution = <<>>
    /\ Len(stats[1].topReferrers) = 2
    /\ statsLoading = FALSE
    /\ statsError = Null

\* ------------------------------------------------------------------------
\* The PostHogSidebar component
\* ------------------------------------------------------------------------

\* lookups that may be in flight together
MaxLookups == 2

\* changes of the experimentKey prop
MaxKeyChanges == 2

FlagKeys == {"k1", "k2"}

\* the ids of the experiments PostHog may hold for a key at mount
ExistingId(k) == IF k = "k1" THEN 1 ELSE 2

\* the id PostHog gives to an experiment created from the sidebar
CreatedId(k) == IF k = "k1" THEN 3 ELSE 4

\* seq without its i-th element
Remove(seq, i) == SubSeq(seq, 1, i - 1) \o SubSeq(seq, i + 1, Len(seq))

\* what the component renders
SidebarView ==
    IF loading THEN "loader"
    ELSE IF error # Null THEN "error"
    ELSE IF experiment = Null
         THEN IF postHogProjectId THEN "create" ELSE "no_data"
    ELSE "experiment"

InitSidebar ==
    /\ experimentKey \in FlagKeys \cup {""}
    /\ postHogAPIKey \in BOOLEAN
    /\ postHogProjectId \in BOOLEAN
    /\ posthogExperiments \in { f \in [FlagKeys -> 0..2] :
                                   \A k \in FlagKeys : f[k] \in {0, ExistingId(k)} }
    /\ experiment = Null
    /\ loading = FALSE
    /\ error = Null
    /\ sidebarResults = Null
    /\ resultsLoading = FALSE
    /\ resultsError = Null
    /\ effectQueued = TRUE
    /\ lookups = <<>>
    /\ resultRequests = <<>>
    /\ createTimer = Null
    /\ lastLookup = Null
    /\ keyChanges = 0
    /\ CreateIdle
    /\ AllocIdle
    /\ ResultsIdle
    /\ StatsIdle
    /\ ModalIdle
    /\ PageIdle

\* what the sidebar never changes
SidebarEnv == << postHogAPIKey, postHogProjectId, createVars, allocVars, resultsVars,
                 statsVars, modalVars, pageVars >>

\* the ExperimentKey field changes: the component renders again with the
\* new prop and its effect is queued
ChangeExperimentKey ==
    /\ keyChanges < MaxKeyChanges
    /\ \E k \in (FlagKeys \cup {""}) \ {experimentKey} : experimentKey' = k
    /\ effectQueued' = TRUE
    /\ keyChanges' = keyChanges + 1
    /\ UNCHANGED << SidebarEnv, posthogExperiments, experiment, loading, error,
                    sidebarResults, resultsLoading, resultsError, lookups,
                    resultRequests, createTimer, lastLookup >>

\* the effect: fetchExperiment up to its first await
RunEffect ==
    /\ effectQueued
    /\ (postHogAPIKey /\ postHogProjectId /\ experimentKey # "")
           => Len(lookups) < MaxLookups
    /\ effectQueued' = FALSE
    /\ IF ~postHogAPIKey \/ ~postHogProjectId \/ experimentKey = ""
       THEN /\ error' = Some("missing_configuration")
            /\ UNCHANGED << loading, lookups >>
       ELSE /\ loading' = TRUE
            /\ error' = Null
            /\ lookups' = Append(lookups, [key |-> experimentKey, stage |-> "list", id |-> 0])
    /\ UNCHANGED << SidebarEnv, experimentKey, posthogExperiments, experiment,
                    sidebarResults, resultsLoading, resultsError, resultRequests,
                    createTimer, lastLookup, keyChanges >>

\* the list of experiments is answered: find by feature_flag_key, then
\* either the request for the full experiment or setExperiment(null)
ExperimentsAnswered ==
    /\ \E i \in 1..Len(lookups) :
         /\ lookups[i].stage = "list"
         /\ \/ /\ error' = Some("failed_to_fetch_experiments")
               /\ loading' = FALSE
               /\ lookups' = Remove(lookups, i)
               /\ lastLookup' = Some([key |-> lookups[i].key, outcome |-> "failed"])
               /\ UNCHANGED experiment
            \/ /\ posthogExperiments[lookups[i].key] # 0
               /\ lookups' = [ lookups EXCEPT ![i] =
                                 [key |-> lookups[i].key, stage |-> "detail",
                                  id |-> posthogExperiments[lookups[i].key]] ]
               /\ UNCHANGED << experiment, loading, error, lastLookup >>
            \/ /\ posthogExperiments[lookups[i].key] = 0
               /\ experiment' = Null
               /\ loading' = FALSE
               /\ lookups' = Remove(lookups, i)
               /\ lastLookup' = Some([key |-> lookups[i].key, outcome |-> "none"])
               /\ UNCHANGED error
    /\ UNCHANGED << SidebarEnv, experimentKey, posthogExperiments, sidebarResults,
                    resultsLoading, resultsError, effectQueued, resultRequests,
                    createTimer, keyChanges >>

\* the full experiment is answered: setExperiment, fetchResults up to its
\* await, then finally
ExperimentAnswered ==
    /\ \E i \in 1..Len(lookups) :
         /\ lookups[i].stage = "detail"
         /\ \/ /\ error' = Some("failed_to_fetch_experiment_details")
               /\ lastLookup' = Some([key |-> lookups[i].key, outcome |-> "failed"])
               /\ UNCHANGED << experiment, resultsLoading, resultsError, resultRequests >>
            \/ /\ experiment' = Some([id |-> lookups[i].id,
                                      feature_flag_key |-> lookups[i].key])
               /\ resultsLoading' = TRUE
               /\ resultsError' = Null
               /\ resultRequests' = Append(resultRequests, lookups[i].id)
               /\ lastLookup' = Some([key |-> lookups[i].key, outcome |-> "found"])
               /\ UNCHANGED error
         /\ loading' = FALSE
         /\ lookups' = Remove(lookups, i)
    /\ UNCHANGED << SidebarEnv, experimentKey, posthogExperiments, sidebarResults,
                    effectQueued, createTimer, keyChanges >>

\* a results request is answered: 404 clears the results, another status
\* that is not ok or a rejection sets resultsError, ok sets the results
ResultsAnswered ==
    /\ \E j \in 1..Len(resultRequests) :
         /\ \/ /\ sidebarResults' = Null
               /\ UNCHANGED resultsError
            \/ /\ resultsError' = Some("failed_to_fetch_results")
               /\ UNCHANGED sidebarResults
            \/ /\ sidebarResults' = Some([experimentId |-> resultRequests[j]])
               /\ UNCHANGED resultsError
         /\ resultsLoading' = FALSE
         /\ resultRequests' = Remove(resultRequests, j)
    /\ UNCHANGED << SidebarEnv, experimentKey, posthogExperiments, experiment, loading,
                    error, effectQueued, lookups, createTimer, lastLookup, keyChanges >>

\* CreateExperiment, rendered by the sidebar, got an ok response to its
\* creation POST and armed the timer that calls onCreated
ExperimentCreated ==
    /\ SidebarView = "create"
    /\ experimentKey # ""
    /\ postHogAPIKey
    /\ createTimer = Null
    /\ posthogExperiments[experimentKey] = 0
    /\ posthogExperiments' =
          [ posthogExperiments EXCEPT ![experimentKey] = CreatedId(experimentKey) ]
    /\ createTimer' = Some([id |-> CreatedId(experimentKey),
                            feature_flag_key |-> experimentKey])
    /\ UNCHANGED << SidebarEnv, experimentKey, experiment, loading, error,
                    sidebarResults, resultsLoading, resultsError, effectQueued, lookups,
                    resultRequests, lastLookup, keyChanges >>

\* onCreated={(experiment) => setExperiment(experiment)}
OnCreated ==
    /\ createTimer # Null
    /\ experiment' = createTimer
    /\ createTimer' = Null
    /\ UNCHANGED << SidebarEnv, experimentKey, posthogExperiments, loading, error,
                    sidebarResults, resultsLoading, resultsError, effectQueued, lookups,
                    resultRequests, lastLookup, keyChanges >>

NextSidebar ==
    \/ ChangeExperimentKey
    \/ RunEffect
    \/ ExperimentsAnswered
    \/ ExperimentAnswered
    \/ ResultsAnswered
    \/ ExperimentCreated
    \/ OnCreated

SpecSidebar == InitSidebar /\ [][NextSidebar]_vars

\* ------------------------------------------------------------------------
\* Properties of the sidebar
\* ------------------------------------------------------------------------

\* C19 as claimed: the create-experiment UI is rendered only when no
\* lookup is in flight and the lookup that completed last was one for the
\* current experimentKey that found no experiment; never before a lookup
\* has completed, while one is in flight, or when it failed.
C19_CreateOnlyAfterNoMatch ==
    SidebarView = "create" =>
        /\ lookups = <<>>
        /\ lastLookup = Some([key |-> experimentKey, outcome |-> "none"])

\* C21 as claimed: whenever no experiment lookup is in flight (and the
\* effect of the last render has run) and an experiment is displayed, its
\* feature_flag_key equals the current experimentKey prop, also when the
\* prop changed while an earlier lookup was in flight and the responses
\* arrive in any order.
C21_DisplayedKeyIsCurrent ==
    (lookups = <<>> /\ ~effectQueued /\ SidebarView = "experiment") =>
        experiment[1].feature_flag_key = experimentKey

\* C22 as claimed: whenever ExperimentResults is given results that are not
\* null, they were returned by a results request for the id of the
\* experiment displayed; results of an experiment displayed earlier are
\* never shown under another one, including one set through onCreated.
C22_ResultsOfDisplayedExperiment ==
    (SidebarView = "experiment" /\ sidebarResults # Null) =>
        sidebarResults[1].experimentId = experiment[1].id

\* ------------------------------------------------------------------------
\* The create-experiment modal (CreateExperimentPage, CreateExperimentModal)
\* ------------------------------------------------------------------------

\* clicks on Cancel the host may receive before it removes the modal frame
MaxCancelClicks == 1

\* positions of the traffic-allocation slider of the modal (min 10, max
\* 100, step 10): its two ends and its middle label
ModalSliderValues == {10, 50, 100}

\* the items of the CMS Variants list seen by the modal
ModalItems ==
    { Obj(Str("a"), Undef),
      Obj(Undef, Str("b")),
      Obj(Undef, Undef),
      Arr(<<Obj(Str("c"), Undef), Obj(Str("d"), Undef)>>) }

\* the responses of getContentList to the modal, at mount and at the click
ModalContentLists ==
    { NoList }
    \cup { [ok |-> TRUE, totalCount |-> Len(s), items |-> s] :
             s \in UNION { [1..k -> ModalItems] : k \in 0..MaxItems } }

\* what the modal never changes: its props and the other components
ModalEnv == << modalItem, modalSdkReady, modalVariantsField, createVars, allocVars,
               resultsVars, statsVars, sidebarVars, pageVars >>

\* the state of fetchCmsVariants
VariantsLoad == << cmsVariants, variantsLoading, variantsError, variantsPc >>

\* the state of createExperiment of the modal
ModalHandler == << modalClickTargeting, modalPc, modalIsLoading, modalErrorMsg,
                   modalSuccessMsg, modalRequest, modalTimers >>

InitModal ==
    /\ modalOpen = TRUE
    /\ modalItem \in {Null, Some(0), Some(5)}
    /\ modalSdkReady \in BOOLEAN
    /\ modalVariantsField \in BOOLEAN
    /\ cmsVariants = <<>>
    /\ variantsLoading = TRUE
    /\ variantsError = Null
    /\ variantsPc = "mounted"
    /\ modalStep = "template"
    /\ modalTargeting = 100
    /\ modalClickTargeting = 100
    /\ modalPc = "idle"
    /\ modalIsLoading = FALSE
    /\ modalErrorMsg = "null"
    /\ modalSuccessMsg = "null"
    /\ modalRequest = NoRequest
    /\ modalTimers = 0
    /\ closeCalls = <<>>
    /\ CreateIdle
    /\ AllocIdle
    /\ ResultsIdle
    /\ StatsIdle
    /\ SidebarIdle
    /\ PageIdle

\* the mount effect: fetchCmsVariants up to its await
FetchCmsVariants ==
    /\ modalOpen /\ variantsPc = "mounted"
    /\ LET msg == Validate(modalItem, modalSdkReady, modalVariantsField)
       IN  IF msg # "ok"
           THEN /\ variantsError' = Some(msg)
                /\ variantsLoading' = FALSE
                /\ variantsPc' = "done"
           ELSE /\ variantsError' = Null
                /\ variantsLoading' = TRUE
                /\ variantsPc' = "list"
    /\ UNCHANGED << ModalEnv, modalOpen, cmsVariants, modalStep, modalTargeting,
                    ModalHandler, closeCalls >>

\* getContentList of the mount effect resolves
CmsVariantsAnswered ==
    /\ modalOpen /\ variantsPc = "list"
    /\ \E cl \in ModalContentLists :
         cmsVariants' = IF ~cl.ok \/ cl.totalCount = 0 THEN <<>>
                        ELSE ExtractVariants(cl.items)
    /\ variantsLoading' = FALSE
    /\ variantsPc' = "done"
    /\ UNCHANGED << ModalEnv, modalOpen, variantsError, modalStep, modalTargeting,
                    ModalHandler, closeCalls >>

\* getContentList of the mount effect rejects
CmsVariantsRejected ==
    /\ modalOpen /\ variantsPc = "list"
    /\ variantsError' = Some("failed_to_load")
    /\ variantsLoading' = FALSE
    /\ variantsPc' = "done"
    /\ UNCHANGED << ModalEnv, modalOpen, cmsVariants, modalStep, modalTargeting,
                    ModalHandler, closeCalls >>

\* a template card: rendered once the variants are loaded and there is one
ModalSelectTemplate ==
    /\ modalOpen /\ modalStep = "template"
    /\ ~variantsLoading /\ variantsError = Null /\ cmsVariants # <<>>
    /\ modalStep' = "configure"
    /\ UNCHANGED << ModalEnv, modalOpen, VariantsLoad, modalTargeting, ModalHandler,
                    closeCalls >>

ModalBackToTemplate ==
    /\ modalOpen /\ modalStep = "configure"
    /\ modalStep' = "template"
    /\ UNCHANGED << ModalEnv, modalOpen, VariantsLoad, modalTargeting, ModalHandler,
                    closeCalls >>

ModalSetTargeting ==
    /\ modalOpen /\ modalStep = "configure"
    /\ \E v \in ModalSliderValues : modalTargeting' = v
    /\ UNCHANGED << ModalEnv, modalOpen, VariantsLoad, modalStep, ModalHandler,
                    closeCalls >>

ModalGoReview ==
    /\ modalOpen /\ modalStep = "configure"
    /\ modalStep' = "review"
    /\ UNCHANGED << ModalEnv, modalOpen, VariantsLoad, modalTargeting, ModalHandler,
                    closeCalls >>

ModalBackToConfigure ==
    /\ modalOpen /\ modalStep = "review"
    /\ modalStep' = "configure"
    /\ UNCHANGED << ModalEnv, modalOpen, VariantsLoad, modalTargeting, ModalHandler,
                    closeCalls >>

\* the Create button of the footer: createExperiment up to its await
ModalCreateClick ==
    /\ modalOpen /\ modalStep = "review"
    /\ modalSuccessMsg = "null" /\ ~modalIsLoading
    /\ modalSuccessMsg' = "null"
    /\ modalClickTargeting' = modalTargeting
    /\ LET msg == Validate(modalItem, modalSdkReady, modalVariantsField)
       IN  IF msg # "ok"
           THEN /\ modalErrorMsg' = msg
                /\ modalIsLoading' = FALSE
                /\ modalPc' = "idle"
           ELSE /\ modalErrorMsg' = "null"
                /\ modalIsLoading' = TRUE
                /\ modalPc' = "list"
    /\ UNCHANGED << ModalEnv, modalOpen, VariantsLoad, modalStep, modalTargeting,
                    modalRequest, modalTimers, closeCalls >>

\* the catch block followed by finally
ModalCatch ==
    /\ modalOpen
    /\ modalErrorMsg' = "unexpected"
    /\ modalIsLoading' = FALSE
    /\ modalPc' = "idle"
    /\ modalRequest' = NoRequest
    /\ UNCHANGED << ModalEnv, modalOpen, VariantsLoad, modalStep, modalTargeting,
                    modalClickTargeting, modalSuccessMsg, modalTimers, closeCalls >>

\* getContentList of createExperiment resolves: the emptiness check, the
\* extraction, the allocation and the creation POST
ModalListResponse ==
    /\ modalOpen /\ modalPc = "list"
    /\ \E cl \in ModalContentLists :
         IF ~cl.ok \/ cl.totalCount = 0
         THEN /\ modalErrorMsg' = "no_items"
              /\ modalIsLoading' = FALSE
              /\ modalPc' = "idle"
              /\ UNCHANGED modalRequest
         ELSE /\ modalRequest' =
                    FeatureFlagVariants(AllVariants(ExtractVariants(cl.items)),
                                        EffectiveRollout("wizard", modalClickTargeting))
              /\ modalPc' = "post"
              /\ UNCHANGED << modalErrorMsg, modalIsLoading >>
    /\ UNCHANGED << ModalEnv, modalOpen, VariantsLoad, modalStep, modalTargeting,
                    modalClickTargeting, modalSuccessMsg, modalTimers, closeCalls >>

ModalListRejected ==
    /\ modalPc = "list"
    /\ ModalCatch

\* the creation POST is answered
ModalPostResponse ==
    /\ modalOpen /\ modalPc = "post"
    /\ \E r \in PostResponses :
         IF ~Ok(r.status)
         THEN /\ modalErrorMsg' = StatusMessage(r.status, r.detail)
              /\ UNCHANGED << modalSuccessMsg, modalTimers >>
         ELSE /\ modalSuccessMsg' = "created"
              /\ modalTimers' = modalTimers + 1
              /\ UNCHANGED modalErrorMsg
    /\ modalIsLoading' = FALSE
    /\ modalPc' = "idle"
    /\ modalRequest' = NoRequest
    /\ UNCHANGED << ModalEnv, modalOpen, VariantsLoad, modalStep, modalTargeting,
                    modalClickTargeting, closeCalls >>

ModalPostRejected ==
    /\ modalPc = "post"
    /\ ModalCatch

\* the timer armed after a successful creation fires: onCreated is
\* handleCreated, which calls closeModal(experiment)
ModalOnCreatedTimer ==
    /\ modalOpen /\ modalTimers > 0
    /\ modalTimers' = modalTimers - 1
    /\ closeCalls' = Append(closeCalls, "experiment")
    /\ UNCHANGED << ModalEnv, modalOpen, VariantsLoad, modalStep, modalTargeting,
                    modalClickTargeting, modalPc, modalIsLoading, modalErrorMsg,
                    modalSuccessMsg, modalRequest >>

\* the Cancel button of the footer, which the configure and review steps
\* render: onCancel is handleCancel, which calls closeModal(null)
ModalCancel ==
    /\ modalOpen /\ modalStep # "template"
    /\ Len(SelectSeq(closeCalls, LAMBDA c : c = "null")) < MaxCancelClicks
    /\ closeCalls' = Append(closeCalls, "null")
    /\ UNCHANGED << ModalEnv, modalOpen, VariantsLoad, modalStep, modalTargeting,
                    ModalHandler >>

\* the host acts on a closeModal message and removes the frame of the modal:
\* its timers and pending callbacks never run
HostClosesModal ==
    /\ modalOpen /\ closeCalls # <<>>
    /\ modalOpen' = FALSE
    /\ UNCHANGED << ModalEnv, VariantsLoad, modalStep, modalTargeting, ModalHandler,
                    closeCalls >>

NextModal ==
    \/ FetchCmsVariants
    \/ CmsVariantsAnswered
    \/ CmsVariantsRejected
    \/ ModalSelectTemplate
    \/ ModalBackToTemplate
    \/ ModalSetTargeting
    \/ ModalGoReview
    \/ ModalBackToConfigure
    \/ ModalCreateClick
    \/ ModalListResponse
    \/ ModalListRejected
    \/ ModalPostResponse
    \/ ModalPostRejected
    \/ ModalOnCreatedTimer
    \/ ModalCancel
    \/ HostClosesModal

SpecModal == InitModal /\ [][NextModal]_vars

\* ------------------------------------------------------------------------
\* Properties of the modal
\* ------------------------------------------------------------------------

\* C23 as claimed: closeModal is invoked at most once per modal session;
\* once Cancel has closed the modal with null, neither a creation in flight
\* nor its delayed onCreated timer closes it again with an experiment.
C23_CloseModalAtMostOnce == Len(closeCalls) <= 1

\* the step in which the wizard receives an ok response to its creation POST
C24_PostOk ==
    /\ version = "wizard" /\ pc = "post"
    /\ postResponse' # Null /\ Ok(postResponse'[1].status)

C25_ReviewVariants == AllVariants(cmsVariants)

\* C25 as claimed: the variant names and count shown on the review step of
\* the modal equal the keys of feature_flag_variants in the request sent
\* when Create is clicked, also when the CMS Variants list changed between
\* the load at mount and the click.
C25_ReviewMatchesRequest ==
    modalPc = "post" => Keys(modalRequest) = C25_ReviewVariants

\* ------------------------------------------------------------------------
\* The variant-key helpers
\* ------------------------------------------------------------------------

\* extractVariantKey: the Variant or variant field when it is a string,
\* else null (Undef)
extractVariantKey(variantItem) ==
    LET variant == Or(variantItem.Variant, variantItem.variant)
    IN  IF variant.t = "str" THEN variant ELSE Undef

\* the keys pushed for the elements of a list of item objects
RECURSIVE NestedKeys(_)
NestedKeys(elems) ==
    IF elems = <<>> THEN <<>>
    ELSE (IF Truthy(extractVariantKey(Head(elems)))
          THEN <<extractVariantKey(Head(elems))>> ELSE <<>>)
         \o NestedKeys(Tail(elems))

\* extractAllVariantKeys: every nested item of an item that is an array,
\* the item itself otherwise
RECURSIVE extractAllVariantKeys(_)
extractAllVariantKeys(items) ==
    IF items = <<>> THEN <<>>
    ELSE (IF Head(items).isArray THEN NestedKeys(Head(items).elems)
          ELSE NestedKeys(<<Head(items)>>))
         \o extractAllVariantKeys(Tail(items))

\* C26 as claimed: for every CMS content-list response, the variant keys
\* used by createExperiment equal extractAllVariantKeys(items); when an
\* item is itself an array of nested items, the key of every nested item is
\* extracted, not only that of the first.
C26_KeysAreAllVariantKeys ==
    pc = "post" => Keys(request) = AllVariants(extractAllVariantKeys(contentList.items))

\* ------------------------------------------------------------------------
\* The content-item sidebar page (Page of app/layout.tsx)
\* ------------------------------------------------------------------------

\* changes of item.values.ExperimentKey while the page is mounted
MaxItemUpdates == 2

\* the versions of the page: the compact one, the one with the tab list in
\* a panel, and the one that renders the html document
PageVersions == {"compact", "tabs", "html"}

\* the values of the ExperimentKey field
FieldValues == {Null, Some(""), Some("k1"), Some("k2")}

\* value || null
OrNull(value) == IF value = Null \/ value = Some("") THEN Null ELSE value

\* the value handed to setExperimentKey: the html version passes it as is
KeyState(ver, value) == IF ver = "html" THEN value ELSE OrNull(value)

\* the effect returns its cleanup function; the html version only states
\* the arrow function and returns nothing
ReturnsCleanup(ver) == ver # "html"

\* what the page never changes
PageEnv == << pageVersion, createVars, allocVars, resultsVars, statsVars, sidebarVars,
              modalVars >>

InitPage ==
    /\ pageVersion \in PageVersions
    /\ pageMounted = TRUE
    /\ pageEffectQueued = TRUE
    /\ pageEffectRan = FALSE
    /\ itemExperimentKey \in FieldValues
    /\ pageExperimentKey = OrNull(itemExperimentKey)
    /\ registrations = 0
    /\ itemUpdates = 0
    /\ CreateIdle
    /\ AllocIdle
    /\ ResultsIdle
    /\ StatsIdle
    /\ SidebarIdle
    /\ ModalIdle

\* the effect of a render: the cleanup the previous run returned, if any,
\* then setExperimentKey and addFieldListener
PageEffect ==
    /\ pageMounted /\ pageEffectQueued
    /\ pageEffectQueued' = FALSE
    /\ pageEffectRan' = TRUE
    /\ pageExperimentKey' = KeyState(pageVersion, itemExperimentKey)
    /\ registrations' =
          (IF pageEffectRan /\ ReturnsCleanup(pageVersion) THEN 0 ELSE registrations) + 1
    /\ UNCHANGED << PageEnv, pageMounted, itemExperimentKey, itemUpdates >>

\* the content item of the SDK context gets another ExperimentKey value: a
\* dependency of the effect changed, so the next render queues the effect
ItemUpdated ==
    /\ pageMounted
    /\ itemUpdates < MaxItemUpdates
    /\ \E v \in FieldValues \ {itemExperimentKey} : itemExperimentKey' = v
    /\ itemUpdates' = itemUpdates + 1
    /\ pageEffectQueued' = TRUE
    /\ UNCHANGED << PageEnv, pageMounted, pageEffectRan, pageExperimentKey,
                    registrations >>

\* the user edits the ExperimentKey field: onChange of the listener
FieldChanged ==
    /\ pageMounted /\ registrations > 0
    /\ \E v \in FieldValues : pageExperimentKey' = KeyState(pageVersion, v)
    /\ UNCHANGED << PageEnv, pageMounted, pageEffectQueued, pageEffectRan,
                    itemExperimentKey, registrations, itemUpdates >>

\* the page is unmounted: the cleanup the last run of the effect returned
PageUnmount ==
    /\ pageMounted
    /\ pageMounted' = FALSE
    /\ pageEffectQueued' = FALSE
    /\ registrations' =
          IF pageEffectRan /\ ReturnsCleanup(pageVersion) THEN 0 ELSE registrations
    /\ UNCHANGED << PageEnv, pageEffectRan, itemExperimentKey, pageExperimentKey,
                    itemUpdates >>

NextPage ==
    \/ PageEffect
    \/ ItemUpdated
    \/ FieldChanged
    \/ PageUnmount

SpecPage == InitPage /\ [][NextPage]_vars

\* C27 as claimed: every registration of the ExperimentKey field listener
\* is released; removeFieldListener is called before any new
\* addFieldListener, so at most one registration is outstanding at any time
\* and none after unmount, in every version of the page.
C27_ListenerReleased ==
    /\ registrations <= 1
    /\ ~pageMounted => registrations = 0

\* the top-level fields of the route's response that transformResults takes
\* from the primary result
C28_TopLevel(r) ==
    << r.variants, r.probability, r.significant, r.credible_intervals >>

\* C28 as claimed: the variants, probability, significant and
\* credible_intervals fields returned by the results route are always
\* derived from the experiment's first configured metric, also when some
\* of the per-metric queries fail.
C28_FromFirstConfiguredMetric ==
    Transformed =>
        /\ metricQueries[1][1] # Null
        /\ C28_TopLevel(results[1]) =
               C28_TopLevel(transformResults(<<metricQueries[1][1][1]>>))

\* C29 as claimed: loading is true whenever an experiment lookup is in
\* flight and false when none is, and resultsLoading likewise for results
\* requests, including when a second lookup starts before the first has
\* finished.
C29_FlagsFollowRequests ==
    /\ loading <=> (lookups # <<>>)
    /\ resultsLoading <=> (resultRequests # <<>>)

\* C30 as claimed: avgTimeOnPage computed by PageAnalytics and by Dashboard
\* is a finite non-negative integer for every time-distribution result,
\* including an empty result and one whose row counts are all zero.
C30_AvgTimeIsFiniteNat ==
    (StatsLoadFinished /\ stats # Null /\ component \in {"Dashboard", "PageAnalytics"}) =>
        /\ ~stats[1].avgTimeOnPage.nan
        /\ stats[1].avgTimeOnPage.value \in Nat

====
